---- MODULE Spec2Model ----
(***************************************************************************)
(* A model of the stepstone health-check engine: the result model          *)
(* (common.rs), the address resolver and connectivity probe (frontend.rs,  *)
(* datanode.rs) and the three role checkers' check() (frontend.rs,         *)
(* datanode.rs, metasrv.rs).                                               *)
(*                                                                         *)
(* Text is modelled as a sequence of one-character strings, so that        *)
(* prefixes, the last ':' and the first '/' are computed as the code       *)
(* computes them.  Option<T> is <<>> (None) or <<v>> (Some(v)).            *)
(***************************************************************************)
EXTENDS Integers, Sequences, FiniteSets, TLC

\* ------------------------------------------------------------------------
\* Bounds of the model
\* ------------------------------------------------------------------------
MaxDetails == 3      \* longest detail list given to the result model
MaxDur == 2          \* largest per-item duration given to the result model

\* ------------------------------------------------------------------------
\* Generic helpers
\* ------------------------------------------------------------------------
None == <<>>
Some(x) == <<x>>

\* all sequences over S of length at most n
SeqsUpTo(S, n) == UNION {[1..k -> S] : k \in 0..n}

RECURSIVE SumSeq(_)
SumSeq(s) == IF s = <<>> THEN 0 ELSE Head(s) + SumSeq(Tail(s))

\* ------------------------------------------------------------------------
\* Result model (common.rs)
\* ------------------------------------------------------------------------
Pass == "Pass"
Fail == "Fail"
Warning == "Warning"
CheckStatus == {Pass, Fail, Warning}

\* decimal rendering of a natural number, as format!("{}", n) prints it
Digit(d) == CASE d = 0 -> "0" [] d = 1 -> "1" [] d = 2 -> "2" [] d = 3 -> "3"
              [] d = 4 -> "4" [] d = 5 -> "5" [] d = 6 -> "6" [] d = 7 -> "7"
              [] d = 8 -> "8" [] d = 9 -> "9"

RECURSIVE ToDec(_)
ToDec(n) == IF n < 10 THEN <<Digit(n)>> ELSE ToDec(n \div 10) \o <<Digit(n % 10)>>

\* a literal piece of a formatted message
Lit(s) == <<s>>

CheckDetail_pass(item, message, duration) ==
    [item |-> item, status |-> Pass, message |-> message,
     duration |-> duration, suggestion |-> None]

CheckDetail_fail(item, message, duration, suggestion) ==
    [item |-> item, status |-> Fail, message |-> message,
     duration |-> duration, suggestion |-> suggestion]

CheckDetail_warning(item, message, duration, suggestion) ==
    [item |-> item, status |-> Warning, message |-> message,
     duration |-> duration, suggestion |-> suggestion]

\* details.iter().filter(|d| d.status == st).count()
CountStatus(details, st) == Len(SelectSeq(details, LAMBDA d : d.status = st))

\* a plausible slip: an item without a duration counted as a zero duration
total_duration_zero(details) ==
    Some(SumSeq([i \in 1..Len(SelectSeq(details, LAMBDA d : d.duration # None))
                   |-> SelectSeq(details, LAMBDA d : d.duration # None)[i][1]]))

\* details.iter().filter_map(|d| d.duration).reduce(|acc, d| acc + d)
total_duration(details) ==
    LET present == SelectSeq(details, LAMBDA d : d.duration # None)
        durs == [i \in 1..Len(present) |-> present[i].duration[1]]
    IN  IF durs = <<>> THEN None ELSE Some(SumSeq(durs))

\* CheckResult::success
success(message, details) ==
    [success |-> TRUE, message |-> message, details |-> details,
     total_duration |-> total_duration(details)]

\* CheckResult::failure
failure(message, details) ==
    [success |-> FALSE, message |-> message, details |-> details,
     total_duration |-> total_duration(details)]

\* a plausible slip: the failure summary names the two last counts crosswise
from_details_message_crossed(details) ==
    LET ok == \A i \in DOMAIN details : details[i].status \in {Pass, Warning}
        has_warnings == \E i \in DOMAIN details : details[i].status = Warning
        failed_count == CountStatus(details, Fail)
        passed_count == CountStatus(details, Pass)
        warning_count == CountStatus(details, Warning)
    IN  IF ok
        THEN IF has_warnings
             THEN Lit("Checks completed with warnings (") \o ToDec(passed_count)
                    \o Lit(" passed, ") \o ToDec(warning_count) \o Lit(" warnings)")
             ELSE Lit("All checks passed (") \o ToDec(passed_count) \o Lit(" passed)")
        ELSE Lit("Some checks failed (") \o ToDec(passed_count) \o Lit(" passed, ")
               \o ToDec(failed_count) \o Lit(" warnings, ")
               \o ToDec(warning_count) \o Lit(" failed)")

\* the summary message of from_details
from_details_message(details) ==
    LET ok == \A i \in DOMAIN details : details[i].status \in {Pass, Warning}
        has_warnings == \E i \in DOMAIN details : details[i].status = Warning
        failed_count == CountStatus(details, Fail)
        passed_count == CountStatus(details, Pass)
        warning_count == CountStatus(details, Warning)
    IN  IF ok
        THEN IF has_warnings
             THEN Lit("Checks completed with warnings (") \o ToDec(passed_count)
                    \o Lit(" passed, ") \o ToDec(warning_count) \o Lit(" warnings)")
             ELSE Lit("All checks passed (") \o ToDec(passed_count) \o Lit(" passed)")
        ELSE Lit("Some checks failed (") \o ToDec(passed_count) \o Lit(" passed, ")
               \o ToDec(warning_count) \o Lit(" warnings, ")
               \o ToDec(failed_count) \o Lit(" failed)")

\* a plausible slip: any() written for all()
from_details_any(details) ==
    [success |-> \E i \in DOMAIN details : details[i].status \in {Pass, Warning},
     message |-> from_details_message(details),
     details |-> details,
     total_duration |-> total_duration(details)]

\* a plausible slip: only Pass counts toward success
from_details_strict(details) ==
    [success |-> \A i \in DOMAIN details : details[i].status = Pass,
     message |-> from_details_message(details),
     details |-> details,
     total_duration |-> total_duration(details)]

\* CheckResult::from_details
from_details(details) ==
    [success |-> \A i \in DOMAIN details : details[i].status \in {Pass, Warning},
     message |-> from_details_message(details),
     details |-> details,
     total_duration |-> total_duration(details)]

\* CheckResult::to_json, the fields computed from the result: the verdict,
\* the four counts, the message and the status word of every detail
StatusWord(st) ==
    CASE st = Pass -> "PASS"
      [] st = Fail -> "FAIL"
      [] st = Warning -> "WARNING"

to_json(res) ==
    [overall_result |-> IF res.success THEN "PASS" ELSE "FAIL",
     total_checks |-> Len(res.details),
     passed_checks |-> CountStatus(res.details, Pass),
     failed_checks |-> CountStatus(res.details, Fail),
     warning_checks |-> CountStatus(res.details, Warning),
     total_duration_ms |-> res.total_duration,
     message |-> res.message,
     details |-> [i \in DOMAIN res.details |->
                    [item |-> res.details[i].item,
                     status |-> StatusWord(res.details[i].status),
                     message |-> res.details[i].message,
                     duration_ms |-> res.details[i].duration,
                     suggestion |-> res.details[i].suggestion]]]

\* ------------------------------------------------------------------------
\* Inputs of the result model
\* ------------------------------------------------------------------------
OptDurations == {None} \cup {Some(d) : d \in 0..MaxDur}

\* a detail as the three constructors of CheckDetail build it
MkDetail(st, dur) ==
    CASE st = Pass -> CheckDetail_pass(Lit("Test"), Lit("Passed"), dur)
      [] st = Fail -> CheckDetail_fail(Lit("Test"), Lit("Failed"), dur, Some(Lit("Fix it")))
      [] st = Warning -> CheckDetail_warning(Lit("Test"), Lit("Warning"), dur, None)

SampleDetails == {MkDetail(st, dur) : st \in CheckStatus, dur \in OptDurations}

NoResult == [none |-> TRUE]

\* ------------------------------------------------------------------------
\* Address resolver (frontend.rs, datanode.rs)
\* ------------------------------------------------------------------------
HttpPrefix == <<"h", "t", "t", "p", ":", "/", "/">>
HttpsPrefix == <<"h", "t", "t", "p", "s", ":", "/", "/">>

\* str::starts_with
starts_with(s, p) == Len(s) >= Len(p) /\ SubSeq(s, 1, Len(p)) = p

\* str::strip_prefix(..).unwrap(), called only when starts_with holds
strip_prefix(s, p) == SubSeq(s, Len(p) + 1, Len(s))

\* str::rfind(c): 0 for Option::None, else the 1-based position of the last c
rfind(s, c) ==
    LET hits == {i \in 1..Len(s) : s[i] = c}
    IN  IF hits = {} THEN 0 ELSE CHOOSE i \in hits : \A j \in hits : j <= i

\* str::find(c): 0 for Option::None, else the 1-based position of the first c
find(s, c) ==
    LET hits == {i \in 1..Len(s) : s[i] = c}
    IN  IF hits = {} THEN 0 ELSE CHOOSE i \in hits : \A j \in hits : i <= j

DecDigits == {"0", "1", "2", "3", "4", "5", "6", "7", "8", "9"}

DigitVal(c) == CASE c = "0" -> 0 [] c = "1" -> 1 [] c = "2" -> 2 [] c = "3" -> 3
                 [] c = "4" -> 4 [] c = "5" -> 5 [] c = "6" -> 6 [] c = "7" -> 7
                 [] c = "8" -> 8 [] c = "9" -> 9

U16Max == 65535

\* the digit loop of u16::from_str_radix(_, 10): acc is the value so far;
\* a character that is no digit stops it, and so does a value above u16::MAX
RECURSIVE parse_digits(_, _)
parse_digits(digits, acc) ==
    IF digits = <<>> THEN [ok |-> TRUE, val |-> acc]
    ELSE IF Head(digits) \notin DecDigits THEN [ok |-> FALSE, kind |-> "InvalidDigit"]
    ELSE IF acc * 10 + DigitVal(Head(digits)) > U16Max
         THEN [ok |-> FALSE, kind |-> "PosOverflow"]
    ELSE parse_digits(Tail(digits), acc * 10 + DigitVal(Head(digits)))

\* str::parse::<u16>(): empty text and a lone sign are errors, one leading
\* '+' is accepted, '-' is not a sign of an unsigned type
parse_u16(s) ==
    IF s = <<>> THEN [ok |-> FALSE, kind |-> "Empty"]
    ELSE IF s = <<"+">> \/ s = <<"-">> THEN [ok |-> FALSE, kind |-> "InvalidDigit"]
    ELSE IF Head(s) = "+" THEN parse_digits(Tail(s), 0)
    ELSE parse_digits(s, 0)

\* error::Error::MissingPort / InvalidPort (the snafu context selectors)
MissingPort(address) == [kind |-> "MissingPort", address |-> address]
InvalidPort(address, port_str, source) ==
    [kind |-> "InvalidPort", address |-> address, port_str |-> port_str,
     source |-> source]

Ok(host, port) == [ok |-> TRUE, host |-> host, port |-> port]
Err(e) == [ok |-> FALSE, err |-> e]

MissingPortText ==
    <<"A", "d", "d", "r", "e", "s", "s", " ", "m", "u", "s", "t", " ", "c",
      "o", "n", "t", "a", "i", "n", " ", "p", "o", "r", "t", " ", "n", "u",
      "m", "b", "e", "r", ":", " ">>

InvalidPortText ==
    <<"I", "n", "v", "a", "l", "i", "d", " ", "p", "o", "r", "t", " ", "n",
      "u", "m", "b", "e", "r", " ", "i", "n", " ", "a", "d", "d", "r", "e",
      "s", "s", " ">>

\* the snafu display attributes of MissingPort and InvalidPort
ErrorDisplay(e) ==
    IF e.kind = "MissingPort"
    THEN MissingPortText \o e.address
    ELSE InvalidPortText \o e.address \o <<":", " ">> \o e.port_str

\* a plausible slip: the path is left on the port text
parse_host_port_keep_path(addr) ==
    IF rfind(addr, ":") # 0
    THEN LET colon_pos == rfind(addr, ":")
             host == SubSeq(addr, 1, colon_pos - 1)
             port_str == SubSeq(addr, colon_pos + 1, Len(addr))
             parsed == parse_u16(port_str)
         IN  IF parsed.ok THEN Ok(host, parsed.val)
             ELSE Err(InvalidPort(addr, port_str, parsed.kind))
    ELSE Err(MissingPort(addr))

\* FrontendChecker::parse_host_port
parse_host_port(addr) ==
    IF rfind(addr, ":") # 0
    THEN LET colon_pos == rfind(addr, ":")
             host == SubSeq(addr, 1, colon_pos - 1)
             rest == SubSeq(addr, colon_pos + 1, Len(addr))
             port_str == IF find(rest, "/") # 0
                         THEN SubSeq(rest, 1, find(rest, "/") - 1)
                         ELSE rest
             parsed == parse_u16(port_str)
         IN  IF parsed.ok THEN Ok(host, parsed.val)
             ELSE Err(InvalidPort(addr, port_str, parsed.kind))
    ELSE Err(MissingPort(addr))

\* a plausible slip: the scheme is left on the address
parse_address_keep_scheme(addr) == parse_host_port(addr)

\* FrontendChecker::parse_address
parse_address(addr) ==
    IF starts_with(addr, HttpPrefix)
    THEN parse_host_port(strip_prefix(addr, HttpPrefix))
    ELSE IF starts_with(addr, HttpsPrefix)
    THEN parse_host_port(strip_prefix(addr, HttpsPrefix))
    ELSE parse_host_port(addr)

\* DatanodeChecker::parse_host_port
dn_parse_host_port(addr) ==
    IF rfind(addr, ":") # 0
    THEN LET colon_pos == rfind(addr, ":")
             host == SubSeq(addr, 1, colon_pos - 1)
             rest == SubSeq(addr, colon_pos + 1, Len(addr))
             port_str == IF find(rest, "/") # 0
                         THEN SubSeq(rest, 1, find(rest, "/") - 1)
                         ELSE rest
             parsed == parse_u16(port_str)
         IN  IF parsed.ok THEN Ok(host, parsed.val)
             ELSE Err(InvalidPort(addr, port_str, parsed.kind))
    ELSE Err(MissingPort(addr))

\* DatanodeChecker::parse_address
dn_parse_address(addr) ==
    IF starts_with(addr, HttpPrefix)
    THEN dn_parse_host_port(strip_prefix(addr, HttpPrefix))
    ELSE IF starts_with(addr, HttpsPrefix)
    THEN dn_parse_host_port(strip_prefix(addr, HttpsPrefix))
    ELSE dn_parse_host_port(addr)

\* needle occurs in text as a contiguous run (str::contains)
Contains(text, needle) ==
    \E i \in 0..(Len(text) - Len(needle)) :
        SubSeq(text, i + 1, i + Len(needle)) = needle

\* ------------------------------------------------------------------------
\* Role checkers: configurations and environment
\* ------------------------------------------------------------------------
MaxAddrs == 2        \* longest configured endpoint list
MaxLatency == 1      \* largest elapsed time measured in a run (at least 1)
MaxFaults == 2       \* most operations of one run that do not plainly succeed

\* addresses found in configurations
AddrGood == <<"h", ":", "8", "0">>
AddrUrl == HttpPrefix \o <<"h", ":", "8", "0", "/", "p">>
AddrNoPort == <<"h">>
AddrBadPort == HttpPrefix \o <<"h", ":", "x">>
AddrPool == {AddrUrl, AddrNoPort, AddrBadPort}

AddrLists == SeqsUpTo(AddrPool, MaxAddrs)

\* text of the io::Error of a refused or unroutable connect
IoErrors == {"Connection refused (os error 111)"}

\* outcome of timeout(10 s, TcpStream::connect(..)):
\* Ok(Ok(stream)), Ok(Err(e)) or Err(Elapsed)
ConnectTimeoutSecs == 10
ConnectOutcomes == {[kind |-> "Connected"], [kind |-> "Elapsed"]}
                     \cup {[kind |-> "Error", text |-> e] : e \in IoErrors}

OptServerAddrs == {None, Some(AddrGood), Some(AddrNoPort)}

\* FrontendConfig as frontend.rs reads it: metasrv_addrs and server
FrontendConfigs ==
    {[metasrv_addrs |-> l, server |-> s] :
        l \in AddrLists,
        s \in {None} \cup {Some([addr |-> a, http_addr |-> h, grpc_addr |-> g]) :
                              a \in OptServerAddrs, h \in OptServerAddrs,
                              g \in OptServerAddrs}}

VARIABLES
    rm_in,          \* result model: the detail list given to a constructor
    rm_out,         \* result model: the constructor applied and its CheckResult
    pa_in,          \* address resolver: the address given
    pa_out,         \* address resolver: the checker asked and its answer
    role,           \* the role checker of this run
    cfg,            \* its configuration snapshot
    pc,             \* position of check() in its sequence of steps
    lat,            \* elapsed time the environment shows for a timed step
    faults,         \* operations so far that did not plainly succeed
    idx,            \* loop index of the connectivity probe (0-based)
    cur,            \* the details vector of the sub-check in progress
    all_details,    \* check()'s all_details
    conn_result,    \* CheckResult returned by the connectivity sub-check
    second_result,  \* CheckResult returned by the second sub-check
    result,         \* CheckResult returned by check()
    ops,            \* operations attempted so far, in order
    b_kind,         \* concurrent batch: which of the two batch functions runs
    b_writer,       \* concurrent batch: state of each spawned writer task
    b_seen,         \* concurrent batch: what the collector got from each handle
    b_keys,         \* concurrent batch: the keys kept for the cleanup
    b_deleted,      \* concurrent batch: the keys whose delete was attempted
    b_detail,       \* concurrent batch: the details emitted for the batch
    b_pc,           \* concurrent batch: position of the batch function
    st_backend,     \* shared store: the backend family the runs verify
    st_before,      \* shared store: its content before the first run
    st_data,        \* shared store: its content now
    st_pc,          \* shared store: position of each run
    st_details,     \* shared store: the details vector of each run
    st_result       \* shared store: the CheckResult each run returned

batch_vars == <<b_kind, b_writer, b_seen, b_keys, b_deleted, b_detail, b_pc>>
store_vars == <<st_backend, st_before, st_data, st_pc, st_details, st_result>>

vars == <<rm_in, rm_out, pa_in, pa_out, role, cfg, pc, lat, faults, idx, cur,
          all_details, conn_result, second_result, result, ops, batch_vars,
          store_vars>>

model_vars == <<rm_in, rm_out, pa_in, pa_out, batch_vars, store_vars>>
run_vars == <<role, cfg, pc, lat, faults, idx, cur, all_details, conn_result,
              second_result, result, ops, store_vars>>

\* an operation that did not plainly succeed uses up one unit of the budget
IsFault(outcome) == outcome.kind # "Connected"

\* ------------------------------------------------------------------------
\* Frontend (frontend.rs)
\* ------------------------------------------------------------------------
\* a plausible slip: an elapsed timeout reported as a Warning
frontend_connect_detail_lenient(index, addr, outcome, elapsed) ==
    CASE outcome.kind = "Connected" ->
           CheckDetail_pass(
               Lit("Metasrv Connectivity ") \o ToDec(index + 1),
               Lit("Successfully connected to metasrv at ") \o addr,
               Some(elapsed))
      [] outcome.kind = "Error" ->
           CheckDetail_fail(
               Lit("Metasrv Connectivity ") \o ToDec(index + 1),
               Lit("Failed to connect to metasrv at ") \o addr \o Lit(": ")
                   \o Lit(outcome.text),
               Some(elapsed),
               Some(Lit("Check if metasrv is running and accessible")))
      [] outcome.kind = "Elapsed" ->
           CheckDetail_warning(
               Lit("Metasrv Connectivity ") \o ToDec(index + 1),
               Lit("Connection to metasrv at ") \o addr \o Lit(" timed out"),
               Some(elapsed),
               Some(Lit("Check network connectivity and metasrv availability")))

\* the detail pushed for one endpoint whose address parsed, by connect outcome
frontend_connect_detail(index, addr, outcome, elapsed) ==
    CASE outcome.kind = "Connected" ->
           CheckDetail_pass(
               Lit("Metasrv Connectivity ") \o ToDec(index + 1),
               Lit("Successfully connected to metasrv at ") \o addr,
               Some(elapsed))
      [] outcome.kind = "Error" ->
           CheckDetail_fail(
               Lit("Metasrv Connectivity ") \o ToDec(index + 1),
               Lit("Failed to connect to metasrv at ") \o addr \o Lit(": ")
                   \o Lit(outcome.text),
               Some(elapsed),
               Some(Lit("Check if metasrv is running and accessible")))
      [] outcome.kind = "Elapsed" ->
           CheckDetail_fail(
               Lit("Metasrv Connectivity ") \o ToDec(index + 1),
               Lit("Connection to metasrv at ") \o addr \o Lit(" timed out"),
               Some(elapsed),
               Some(Lit("Check network connectivity and metasrv availability")))

\* the detail pushed for one endpoint whose address did not parse
frontend_parse_detail(index, addr, e) ==
    CheckDetail_fail(
        Lit("Metasrv Address ") \o ToDec(index + 1) \o Lit(" Parsing"),
        Lit("Failed to parse address '") \o addr \o Lit("': ") \o ErrorDisplay(e),
        None,
        Some(Lit("Check address format (should be host:port)")))

\* a plausible slip: the missing endpoint list reported as a Warning
FrontendConnEmptyWarning ==
    /\ role = "Frontend" /\ pc = "conn"
    /\ cfg.metasrv_addrs = <<>>
    /\ LET details == <<CheckDetail_warning(
                          Lit("Metasrv Configuration"),
                          Lit("No metasrv addresses configured"),
                          None,
                          Some(Lit("Add metasrv addresses to metasrv_addrs configuration")))>>
       IN  /\ conn_result' = from_details(details)
           /\ all_details' = all_details \o details
    /\ pc' = "second"
    /\ UNCHANGED <<model_vars, role, cfg, lat, faults, idx, cur, second_result,
                   result, ops>>

\* check_metasrv_connectivity, early return on an empty endpoint list
FrontendConnEmpty ==
    /\ role = "Frontend" /\ pc = "conn"
    /\ cfg.metasrv_addrs = <<>>
    /\ LET details == <<CheckDetail_fail(
                          Lit("Metasrv Configuration"),
                          Lit("No metasrv addresses configured"),
                          None,
                          Some(Lit("Add metasrv addresses to metasrv_addrs configuration")))>>
       IN  /\ conn_result' = from_details(details)
           /\ all_details' = all_details \o details
    /\ pc' = "second"
    /\ UNCHANGED <<model_vars, role, cfg, lat, faults, idx, cur, second_result,
                   result, ops>>

\* a plausible slip: break instead of continue after an address that does
\* not parse
FrontendProbeAbort ==
    /\ role = "Frontend" /\ pc = "conn"
    /\ idx < Len(cfg.metasrv_addrs)
    /\ LET addr == cfg.metasrv_addrs[idx + 1]
           parsed == parse_address(addr)
       IN  IF ~parsed.ok
           THEN /\ cur' = Append(cur, frontend_parse_detail(idx, addr, parsed.err))
                /\ ops' = Append(ops, [op |-> "parse", addr |-> addr])
                /\ idx' = Len(cfg.metasrv_addrs)
                /\ UNCHANGED faults
           ELSE \E outcome \in ConnectOutcomes :
                /\ IsFault(outcome) => faults < MaxFaults
                /\ faults' = IF IsFault(outcome) THEN faults + 1 ELSE faults
                /\ cur' = Append(cur, frontend_connect_detail(idx, addr, outcome, lat))
                /\ ops' = ops \o <<[op |-> "parse", addr |-> addr],
                                   [op |-> "connect", host |-> parsed.host,
                                    port |-> parsed.port,
                                    timeout |-> ConnectTimeoutSecs,
                                    outcome |-> outcome]>>
                /\ idx' = idx + 1
    /\ UNCHANGED <<model_vars, role, cfg, pc, lat, all_details, conn_result,
                   second_result, result>>

\* check_metasrv_connectivity, one iteration of the loop over the endpoints
FrontendProbe ==
    /\ role = "Frontend" /\ pc = "conn"
    /\ idx < Len(cfg.metasrv_addrs)
    /\ LET addr == cfg.metasrv_addrs[idx + 1]
           parsed == parse_address(addr)
       IN  IF ~parsed.ok
           THEN /\ cur' = Append(cur, frontend_parse_detail(idx, addr, parsed.err))
                /\ ops' = Append(ops, [op |-> "parse", addr |-> addr])
                /\ UNCHANGED faults
           ELSE \E outcome \in ConnectOutcomes :
                /\ IsFault(outcome) => faults < MaxFaults
                /\ faults' = IF IsFault(outcome) THEN faults + 1 ELSE faults
                /\ cur' = Append(cur, frontend_connect_detail(idx, addr, outcome, lat))
                /\ ops' = ops \o <<[op |-> "parse", addr |-> addr],
                                   [op |-> "connect", host |-> parsed.host,
                                    port |-> parsed.port,
                                    timeout |-> ConnectTimeoutSecs,
                                    outcome |-> outcome]>>
    /\ idx' = idx + 1
    /\ UNCHANGED <<model_vars, role, cfg, pc, lat, all_details, conn_result,
                   second_result, result>>

\* check_metasrv_connectivity, return after the loop; check() extends all_details
FrontendConnDone ==
    /\ role = "Frontend" /\ pc = "conn"
    /\ cfg.metasrv_addrs # <<>>
    /\ idx = Len(cfg.metasrv_addrs)
    /\ conn_result' = from_details(cur)
    /\ all_details' = all_details \o cur
    /\ cur' = <<>>
    /\ pc' = "second"
    /\ UNCHANGED <<model_vars, role, cfg, lat, faults, idx, second_result,
                   result, ops>>

\* the detail check_server_config pushes for one configured address; label
\* is the wording of the Pass message, low the wording of the Fail message
server_addr_detail(item, label, low, opt_addr) ==
    IF opt_addr = None THEN <<>>
    ELSE LET addr == opt_addr[1]
             parsed == parse_address(addr)
         IN  IF parsed.ok
             THEN <<CheckDetail_pass(
                      Lit(item),
                      Lit(label) \o Lit(" address '") \o addr \o Lit("' is valid"),
                      None)>>
             ELSE <<CheckDetail_fail(
                      Lit(item),
                      Lit("Invalid ") \o Lit(low) \o Lit(" address '") \o addr
                          \o Lit("': ") \o ErrorDisplay(parsed.err),
                      None,
                      Some(Lit("Check ") \o Lit(low) \o Lit(" address format")))>>

\* FrontendChecker::check_server_config
check_server_config(config) ==
    IF config.server # None
    THEN LET server_config == config.server[1]
         IN  from_details(
                 server_addr_detail("Server Address Configuration", "Server",
                                    "server", server_config.addr)
                 \o server_addr_detail("HTTP Address Configuration", "HTTP",
                                       "HTTP", server_config.http_addr)
                 \o server_addr_detail("gRPC Address Configuration", "gRPC",
                                       "gRPC", server_config.grpc_addr))
    ELSE from_details(<<CheckDetail_warning(
                          Lit("Server Configuration"),
                          Lit("No server configuration found, using defaults"),
                          None,
                          Some(Lit("Consider adding server configuration for production use")))>>)

\* FrontendChecker::check, second sub-check
FrontendServerConfig ==
    /\ role = "Frontend" /\ pc = "second"
    /\ second_result' = check_server_config(cfg)
    /\ all_details' = all_details \o check_server_config(cfg).details
    /\ pc' = "reduce"
    /\ UNCHANGED <<model_vars, role, cfg, lat, faults, idx, cur, conn_result,
                   result, ops>>

\* FrontendChecker::check, the final reduction
FrontendFinish ==
    /\ role = "Frontend" /\ pc = "reduce"
    /\ result' = from_details(all_details)
    /\ pc' = "done"
    /\ UNCHANGED <<model_vars, role, cfg, lat, faults, idx, cur, all_details,
                   conn_result, second_result, ops>>

\* ------------------------------------------------------------------------
\* Datanode (datanode.rs): connectivity and storage dispatch
\* ------------------------------------------------------------------------
StorageTypes == {"S3", "Oss", "Azblob", "Gcs", "File", "Hdfs"}

\* DatanodeConfig as datanode.rs reads it: meta_client, storage; the bucket
\* is read by the S3 verifier only, data_home by the file verifier only
DatanodeStorageConfigs ==
    {None}
      \cup {Some([storage_type |-> t, bucket |-> None, data_home |-> None]) :
               t \in {None} \cup {Some(ty) : ty \in StorageTypes}}
      \cup {Some([storage_type |-> Some("S3"), bucket |-> Some(<<"b">>),
                  data_home |-> None]),
            Some([storage_type |-> Some("File"), bucket |-> None,
                  data_home |-> Some(<<"/", "d">>)])}

\* the S3 verifier is explored behind an absent meta_client section and
\* behind a single endpoint, the other storage families behind every list
S3ConfiguredStorage ==
    Some([storage_type |-> Some("S3"), bucket |-> Some(<<"b">>), data_home |-> None])

\* the payload lanes of performance_test_s3 are explored behind an absent
\* meta_client section only
S3LanesBehindEndpoint ==
    [meta_client |-> Some([metasrv_addrs |-> <<AddrUrl>>]),
     storage |-> S3ConfiguredStorage, include_performance |-> TRUE]

DatanodeConfigs ==
    {[meta_client |-> m, storage |-> s, include_performance |-> p] :
        m \in {None} \cup {Some([metasrv_addrs |-> l]) : l \in AddrLists},
        s \in DatanodeStorageConfigs \ {S3ConfiguredStorage},
        p \in {FALSE}}
      \cup
    ({[meta_client |-> m, storage |-> S3ConfiguredStorage, include_performance |-> p] :
        m \in {None, Some([metasrv_addrs |-> <<AddrUrl>>])},
        p \in BOOLEAN} \ {S3LanesBehindEndpoint})

\* a plausible slip: an endpoint that timed out only warned about
datanode_connect_detail_lenient(index, addr, outcome, elapsed) ==
    CASE outcome.kind = "Connected" ->
           CheckDetail_pass(
               Lit("Metasrv Connectivity ") \o ToDec(index + 1),
               Lit("Successfully connected to metasrv at ") \o addr,
               Some(elapsed))
      [] outcome.kind = "Error" ->
           CheckDetail_fail(
               Lit("Metasrv Connectivity ") \o ToDec(index + 1),
               Lit("Failed to connect to metasrv at ") \o addr \o Lit(": ")
                   \o Lit(outcome.text),
               Some(elapsed),
               Some(Lit("Check if metasrv is running and accessible")))
      [] outcome.kind = "Elapsed" ->
           CheckDetail_warning(
               Lit("Metasrv Connectivity ") \o ToDec(index + 1),
               Lit("Connection to metasrv at ") \o addr \o Lit(" timed out"),
               Some(elapsed),
               Some(Lit("Check network connectivity and metasrv availability")))

\* DatanodeChecker::check_metasrv_connectivity, the detail of one dialled endpoint
datanode_connect_detail(index, addr, outcome, elapsed) ==
    CASE outcome.kind = "Connected" ->
           CheckDetail_pass(
               Lit("Metasrv Connectivity ") \o ToDec(index + 1),
               Lit("Successfully connected to metasrv at ") \o addr,
               Some(elapsed))
      [] outcome.kind = "Error" ->
           CheckDetail_fail(
               Lit("Metasrv Connectivity ") \o ToDec(index + 1),
               Lit("Failed to connect to metasrv at ") \o addr \o Lit(": ")
                   \o Lit(outcome.text),
               Some(elapsed),
               Some(Lit("Check if metasrv is running and accessible")))
      [] outcome.kind = "Elapsed" ->
           CheckDetail_fail(
               Lit("Metasrv Connectivity ") \o ToDec(index + 1),
               Lit("Connection to metasrv at ") \o addr \o Lit(" timed out"),
               Some(elapsed),
               Some(Lit("Check network connectivity and metasrv availability")))

datanode_parse_detail(index, addr, e) ==
    CheckDetail_fail(
        Lit("Metasrv Address ") \o ToDec(index + 1) \o Lit(" Parsing"),
        Lit("Failed to parse address '") \o addr \o Lit("': ") \o ErrorDisplay(e),
        None,
        Some(Lit("Check address format (should be host:port)")))

\* check_metasrv_connectivity, early return: no meta_client section
DatanodeNoMetaClient ==
    /\ role = "Datanode" /\ pc = "conn"
    /\ cfg.meta_client = None
    /\ LET details == <<CheckDetail_fail(
                          Lit("Metasrv Configuration"),
                          Lit("No meta_client configuration found"),
                          None,
                          Some(Lit("Configure meta_client section in the configuration file")))>>
       IN  /\ conn_result' = from_details(details)
           /\ all_details' = all_details \o details
    /\ pc' = "second"
    /\ UNCHANGED <<model_vars, role, cfg, lat, faults, idx, cur, second_result,
                   result, ops>>

\* check_metasrv_connectivity, early return: empty endpoint list
DatanodeConnEmpty ==
    /\ role = "Datanode" /\ pc = "conn"
    /\ cfg.meta_client # None
    /\ cfg.meta_client[1].metasrv_addrs = <<>>
    /\ LET details == <<CheckDetail_fail(
                          Lit("Metasrv Configuration"),
                          Lit("No metasrv addresses configured"),
                          None,
                          Some(Lit("Configure metasrv_addrs in the meta_client section")))>>
       IN  /\ conn_result' = from_details(details)
           /\ all_details' = all_details \o details
    /\ pc' = "second"
    /\ UNCHANGED <<model_vars, role, cfg, lat, faults, idx, cur, second_result,
                   result, ops>>

\* check_metasrv_connectivity, one iteration of the loop over the endpoints
DatanodeProbe ==
    /\ role = "Datanode" /\ pc = "conn"
    /\ cfg.meta_client # None
    /\ idx < Len(cfg.meta_client[1].metasrv_addrs)
    /\ LET addr == cfg.meta_client[1].metasrv_addrs[idx + 1]
           parsed == dn_parse_address(addr)
       IN  IF ~parsed.ok
           THEN /\ cur' = Append(cur, datanode_parse_detail(idx, addr, parsed.err))
                /\ ops' = Append(ops, [op |-> "parse", addr |-> addr])
                /\ UNCHANGED faults
           ELSE \E outcome \in ConnectOutcomes :
                /\ IsFault(outcome) => faults < MaxFaults
                /\ faults' = IF IsFault(outcome) THEN faults + 1 ELSE faults
                /\ cur' = Append(cur, datanode_connect_detail(idx, addr, outcome, lat))
                /\ ops' = ops \o <<[op |-> "parse", addr |-> addr],
                                   [op |-> "connect", host |-> parsed.host,
                                    port |-> parsed.port,
                                    timeout |-> ConnectTimeoutSecs,
                                    outcome |-> outcome]>>
    /\ idx' = idx + 1
    /\ UNCHANGED <<model_vars, role, cfg, pc, lat, all_details, conn_result,
                   second_result, result>>

\* check_metasrv_connectivity, return after the loop; check() extends all_details
DatanodeConnDone ==
    /\ role = "Datanode" /\ pc = "conn"
    /\ cfg.meta_client # None
    /\ cfg.meta_client[1].metasrv_addrs # <<>>
    /\ idx = Len(cfg.meta_client[1].metasrv_addrs)
    /\ conn_result' = from_details(cur)
    /\ all_details' = all_details \o cur
    /\ cur' = <<>>
    /\ pc' = "second"
    /\ UNCHANGED <<model_vars, role, cfg, lat, faults, idx, second_result,
                   result, ops>>

\* storage_config.storage_type.as_deref().unwrap_or("File")
storage_type_of(config) ==
    IF config.storage[1].storage_type = None THEN "File"
    ELSE config.storage[1].storage_type[1]

\* a plausible slip: the storage details put before the connectivity details
ReturnSecondFirst(r) ==
    /\ second_result' = r
    /\ all_details' = r.details \o all_details
    /\ cur' = <<>>
    /\ pc' = "reduce"

\* a sub-check of check_object_storage returns r: check() extends all_details
ReturnSecond(r) ==
    /\ second_result' = r
    /\ all_details' = all_details \o r.details
    /\ cur' = <<>>
    /\ pc' = "reduce"

\* check_object_storage, storage section absent
storage_missing_result ==
    failure(Lit("No storage configuration found"),
            <<CheckDetail_fail(
                Lit("Storage Configuration"),
                Lit("Storage configuration is missing"),
                None,
                Some(Lit("Add storage configuration section")))>>)

DatanodeStorageMissing ==
    /\ role = "Datanode" /\ pc = "second"
    /\ cfg.storage = None
    /\ ReturnSecond(storage_missing_result)
    /\ UNCHANGED <<model_vars, role, cfg, lat, faults, idx, conn_result,
                   result, ops>>

\* check_object_storage, a storage type that is none of the five names
storage_unknown_result(unknown) ==
    failure(Lit("Unknown storage type: ") \o Lit(unknown),
            <<CheckDetail_fail(
                Lit("Storage Type"),
                Lit("Unsupported storage type: ") \o Lit(unknown),
                None,
                Some(Lit("Use one of: S3, Oss, Azblob, Gcs, File")))>>)

DatanodeStorageUnknown ==
    /\ role = "Datanode" /\ pc = "second"
    /\ cfg.storage # None
    /\ storage_type_of(cfg) \notin {"S3", "Oss", "Azblob", "Gcs", "File"}
    /\ ReturnSecond(storage_unknown_result(storage_type_of(cfg)))
    /\ UNCHANGED <<model_vars, role, cfg, lat, faults, idx, conn_result,
                   result, ops>>

\* a plausible slip: a family without a deep check reported as a Fail
check_oss_storage_fail ==
    from_details(<<CheckDetail_fail(
                     Lit("OSS Storage"),
                     Lit("OSS storage check not fully implemented yet"),
                     None,
                     Some(Lit("OSS support is planned for future versions")))>>)

\* DatanodeChecker::check_oss_storage
check_oss_storage ==
    from_details(<<CheckDetail_warning(
                     Lit("OSS Storage"),
                     Lit("OSS storage check not fully implemented yet"),
                     None,
                     Some(Lit("OSS support is planned for future versions")))>>)

\* DatanodeChecker::check_azblob_storage
check_azblob_storage ==
    from_details(<<CheckDetail_warning(
                     Lit("Azure Blob Storage"),
                     Lit("Azure Blob storage check not fully implemented yet"),
                     None,
                     Some(Lit("Azure Blob support is planned for future versions")))>>)

\* DatanodeChecker::check_gcs_storage
check_gcs_storage ==
    from_details(<<CheckDetail_warning(
                     Lit("Google Cloud Storage"),
                     Lit("GCS storage check not fully implemented yet"),
                     None,
                     Some(Lit("GCS support is planned for future versions")))>>)

DatanodeStorageOss ==
    /\ role = "Datanode" /\ pc = "second"
    /\ cfg.storage # None /\ storage_type_of(cfg) = "Oss"
    /\ ReturnSecond(check_oss_storage)
    /\ UNCHANGED <<model_vars, role, cfg, lat, faults, idx, conn_result,
                   result, ops>>

DatanodeStorageAzblob ==
    /\ role = "Datanode" /\ pc = "second"
    /\ cfg.storage # None /\ storage_type_of(cfg) = "Azblob"
    /\ ReturnSecond(check_azblob_storage)
    /\ UNCHANGED <<model_vars, role, cfg, lat, faults, idx, conn_result,
                   result, ops>>

DatanodeStorageGcs ==
    /\ role = "Datanode" /\ pc = "second"
    /\ cfg.storage # None /\ storage_type_of(cfg) = "Gcs"
    /\ ReturnSecond(check_gcs_storage)
    /\ UNCHANGED <<model_vars, role, cfg, lat, faults, idx, conn_result,
                   result, ops>>

\* storage_config.data_home.as_deref().unwrap_or("./greptimedb_data")
DefaultDataHome == <<"./greptimedb_data">>
root_path_of(config) ==
    IF config.storage[1].data_home = None THEN DefaultDataHome
    ELSE config.storage[1].data_home[1]

\* what the file system answers to metadata() and to the probe write
FsOutcomes == {"missing", "not_dir", "write_ok", "write_err"}
FsErrorText == "Permission denied (os error 13)"
FsMissingText == "No such file or directory (os error 2)"

\* a plausible slip: a missing directory only warned about
check_file_storage_lenient(config, fs) ==
    LET root_path == root_path_of(config)
        dir_pass == CheckDetail_pass(
                        Lit("File Storage Directory"),
                        Lit("Storage directory '") \o root_path \o Lit("' exists"),
                        None)
    IN  CASE fs = "missing" ->
               from_details(<<CheckDetail_warning(
                   Lit("File Storage Directory"),
                   Lit("Storage directory '") \o root_path
                       \o Lit("' does not exist or is not accessible: ")
                       \o Lit(FsMissingText),
                   None,
                   Some(Lit("Create the storage directory or check permissions")))>>)
          [] fs = "not_dir" ->
               from_details(<<CheckDetail_fail(
                   Lit("File Storage Directory"),
                   Lit("Storage path '") \o root_path
                       \o Lit("' exists but is not a directory"),
                   None,
                   Some(Lit("Ensure storage path points to a directory")))>>)
          [] fs = "write_ok" ->
               from_details(<<dir_pass,
                   CheckDetail_pass(
                       Lit("File Storage Write Permission"),
                       Lit("Write permission verified"),
                       None)>>)
          [] fs = "write_err" ->
               from_details(<<dir_pass,
                   CheckDetail_fail(
                       Lit("File Storage Write Permission"),
                       Lit("Write permission test failed: ") \o Lit(FsErrorText),
                       None,
                       Some(Lit("Check directory permissions")))>>)

\* DatanodeChecker::check_file_storage, by what the file system answers
check_file_storage(config, fs) ==
    LET root_path == root_path_of(config)
        dir_pass == CheckDetail_pass(
                        Lit("File Storage Directory"),
                        Lit("Storage directory '") \o root_path \o Lit("' exists"),
                        None)
    IN  CASE fs = "missing" ->
               from_details(<<CheckDetail_fail(
                   Lit("File Storage Directory"),
                   Lit("Storage directory '") \o root_path
                       \o Lit("' does not exist or is not accessible: ")
                       \o Lit(FsMissingText),
                   None,
                   Some(Lit("Create the storage directory or check permissions")))>>)
          [] fs = "not_dir" ->
               from_details(<<CheckDetail_fail(
                   Lit("File Storage Directory"),
                   Lit("Storage path '") \o root_path
                       \o Lit("' exists but is not a directory"),
                   None,
                   Some(Lit("Ensure storage path points to a directory")))>>)
          [] fs = "write_ok" ->
               from_details(<<dir_pass,
                   CheckDetail_pass(
                       Lit("File Storage Write Permission"),
                       Lit("Write permission verified"),
                       None)>>)
          [] fs = "write_err" ->
               from_details(<<dir_pass,
                   CheckDetail_fail(
                       Lit("File Storage Write Permission"),
                       Lit("Write permission test failed: ") \o Lit(FsErrorText),
                       None,
                       Some(Lit("Check directory permissions")))>>)

\* the file-system operations check_file_storage attempts
file_storage_ops(config, fs) ==
    LET root_path == root_path_of(config)
        test_file == root_path \o Lit("/stepstone_test_") \o Lit("{uuid}")
        meta(answer) == [op |-> "fs_metadata", path |-> root_path,
                         answer |-> answer]
        write(outcome) == [op |-> "fs_write", path |-> test_file,
                           outcome |-> outcome]
        remove == [op |-> "fs_remove_file", path |-> test_file]
    IN  CASE fs = "missing" -> <<meta("Err")>>
          [] fs = "not_dir" -> <<meta("NotDir")>>
          [] fs = "write_err" -> <<meta("Dir"), write("Err")>>
          [] fs = "write_ok" -> <<meta("Dir"), write("Ok"), remove>>

DatanodeStorageFile ==
    /\ role = "Datanode" /\ pc = "second"
    /\ cfg.storage # None /\ storage_type_of(cfg) = "File"
    /\ \E fs \in FsOutcomes :
        /\ fs # "write_ok" => faults < MaxFaults
        /\ faults' = IF fs # "write_ok" THEN faults + 1 ELSE faults
        /\ ReturnSecond(check_file_storage(cfg, fs))
        /\ ops' = ops \o file_storage_ops(cfg, fs)
    /\ UNCHANGED <<model_vars, role, cfg, lat, idx, conn_result, result>>

\* DatanodeChecker::check, the final reduction
DatanodeFinish ==
    /\ role = "Datanode" /\ pc = "reduce"
    /\ result' = from_details(all_details)
    /\ pc' = "done"
    /\ UNCHANGED <<model_vars, role, cfg, lat, faults, idx, cur, all_details,
                   conn_result, second_result, ops>>

\* ------------------------------------------------------------------------
\* Datanode (datanode.rs): the S3 verifier
\* ------------------------------------------------------------------------
\* the text of a storage error is a run of words; error_msg.contains(w)
\* holds when w is one of them
ErrText(word) == <<"S3Error: ", word>>
ErrContains(error_msg, word) == \E i \in DOMAIN error_msg : error_msg[i] = word

\* error texts the store answers to the two permission probes
S3ProbeErrors == {ErrText(w) : w \in {"AccessDenied", "Forbidden", "NoSuchBucket",
                                      "InvalidAccessKeyId", "SignatureDoesNotMatch",
                                      "NoSuchKey", "NotFound", "ConnectionReset"}}

\* error texts the store answers to the other operations
S3OpErrors == {ErrText("ConnectionReset")}

\* fan-out of the two concurrent write batches
ConcurrentCountPerf == 100     \* test_s3_concurrent_performance
ConcurrentCountLane == 10      \* performance_test_concurrent_s3

\* the payload sizes of performance_test_s3, by name
TestSizes == <<"1KB", "1MB", "10MB">>

ProbeKey == "stepstone-test/{uuid}"
NonExistentKey == "stepstone-nonexistent-{uuid}"
SmallKey == "stepstone_perf_test_64mb"
LargeKey == "stepstone_perf_test_1gb"
SizeKey(size_name) == CASE size_name = "1KB" -> "stepstone-perf-test/1KB/{uuid}"
                        [] size_name = "1MB" -> "stepstone-perf-test/1MB/{uuid}"
                        [] size_name = "10MB" -> "stepstone-perf-test/10MB/{uuid}"

\* a measured latency or rate printed into a message
Measured == "{measured}"

S3Op(name, key) == [op |-> name, key |-> key]

\* an operation of the store together with what the store answered
S3OpOut(name, key, outcome) == [op |-> name, key |-> key, outcome |-> outcome]

\* one more operation that did not plainly succeed
Charge(is_fault) ==
    /\ is_fault => faults < MaxFaults
    /\ faults' = IF is_fault THEN faults + 1 ELSE faults

InS3(at) == role = "Datanode" /\ pc = at

\* check_s3_storage, bucket name missing
DatanodeS3NoBucket ==
    /\ InS3("second")
    /\ cfg.storage # None /\ storage_type_of(cfg) = "S3"
    /\ cfg.storage[1].bucket = None
    /\ ReturnSecond(from_details(<<CheckDetail_fail(
                        Lit("S3 Configuration"),
                        Lit("S3 bucket name is required"),
                        None,
                        Some(Lit("Set bucket name in storage configuration")))>>))
    /\ UNCHANGED <<model_vars, role, cfg, lat, faults, idx, conn_result,
                   result, ops>>

\* check_s3_storage, Operator::new(builder)
DatanodeS3Client ==
    /\ InS3("second")
    /\ cfg.storage # None /\ storage_type_of(cfg) = "S3"
    /\ cfg.storage[1].bucket # None
    /\ \E built \in {"ok", "err"} :
        /\ Charge(built = "err")
        /\ IF built = "ok"
           THEN /\ cur' = <<CheckDetail_pass(
                              Lit("S3 Client Creation"),
                              Lit("S3 client created successfully"),
                              Some(lat))>>
                /\ pc' = "s3_list"
           ELSE /\ cur' = <<CheckDetail_fail(
                              Lit("S3 Client Creation"),
                              Lit("Failed to create S3 client: ") \o Lit("ConfigInvalid"),
                              Some(lat),
                              Some(Lit("Check S3 configuration and credentials")))>>
                /\ pc' = "s3_return"
        /\ ops' = Append(ops, S3OpOut("s3_client", "-",
                                      IF built = "ok" THEN "Ok" ELSE "Err"))
    /\ UNCHANGED <<model_vars, role, cfg, lat, idx, all_details, conn_result,
                   second_result, result>>

\* outcome of timeout(30 s, op.list(""))
ListOutcomes == {[kind |-> "Ok"], [kind |-> "Elapsed"]}
                  \cup {[kind |-> "Err", e |-> e] : e \in S3ProbeErrors}

\* a plausible slip: a missing bucket reported as a warning
list_detail_lenient(outcome, elapsed) ==
    CASE outcome.kind = "Ok" ->
           CheckDetail_pass(
               Lit("S3 Bucket List Permission"),
               Lit("Successfully listed bucket contents (ListBucket permission verified)"),
               Some(elapsed))
      [] outcome.kind = "Elapsed" ->
           CheckDetail_warning(
               Lit("S3 Bucket List Permission"),
               Lit("Bucket listing timed out (>30s)"),
               Some(elapsed),
               Some(Lit("Check network connectivity to S3 endpoint")))
      [] outcome.kind = "Err" ->
           IF ErrContains(outcome.e, "AccessDenied") \/ ErrContains(outcome.e, "Forbidden")
           THEN CheckDetail_fail(
                    Lit("S3 Bucket List Permission"),
                    Lit("Access denied for bucket listing: ") \o outcome.e,
                    Some(elapsed),
                    Some(Lit("Check if the AKSK has ListBucket permission for this bucket")))
           ELSE IF ErrContains(outcome.e, "NoSuchBucket")
           THEN CheckDetail_warning(
                    Lit("S3 Bucket Existence"),
                    Lit("Bucket does not exist: ") \o outcome.e,
                    Some(elapsed),
                    Some(Lit("Create the bucket or check the bucket name in configuration")))
           ELSE IF ErrContains(outcome.e, "InvalidAccessKeyId")
           THEN CheckDetail_fail(
                    Lit("S3 Access Key Validation"),
                    Lit("Invalid access key: ") \o outcome.e,
                    Some(elapsed),
                    Some(Lit("Check the access_key_id in configuration")))
           ELSE IF ErrContains(outcome.e, "SignatureDoesNotMatch")
           THEN CheckDetail_fail(
                    Lit("S3 Secret Key Validation"),
                    Lit("Invalid secret key: ") \o outcome.e,
                    Some(elapsed),
                    Some(Lit("Check the secret_access_key in configuration")))
           ELSE CheckDetail_warning(
                    Lit("S3 Bucket List Permission"),
                    Lit("Bucket listing failed: ") \o outcome.e,
                    Some(elapsed),
                    Some(Lit("This may indicate network issues or other S3 service problems")))

\* test_s3_bucket_permissions, test 1: the detail by outcome of the listing
list_detail(outcome, elapsed) ==
    CASE outcome.kind = "Ok" ->
           CheckDetail_pass(
               Lit("S3 Bucket List Permission"),
               Lit("Successfully listed bucket contents (ListBucket permission verified)"),
               Some(elapsed))
      [] outcome.kind = "Elapsed" ->
           CheckDetail_warning(
               Lit("S3 Bucket List Permission"),
               Lit("Bucket listing timed out (>30s)"),
               Some(elapsed),
               Some(Lit("Check network connectivity to S3 endpoint")))
      [] outcome.kind = "Err" ->
           IF ErrContains(outcome.e, "AccessDenied") \/ ErrContains(outcome.e, "Forbidden")
           THEN CheckDetail_fail(
                    Lit("S3 Bucket List Permission"),
                    Lit("Access denied for bucket listing: ") \o outcome.e,
                    Some(elapsed),
                    Some(Lit("Check if the AKSK has ListBucket permission for this bucket")))
           ELSE IF ErrContains(outcome.e, "NoSuchBucket")
           THEN CheckDetail_fail(
                    Lit("S3 Bucket Existence"),
                    Lit("Bucket does not exist: ") \o outcome.e,
                    Some(elapsed),
                    Some(Lit("Create the bucket or check the bucket name in configuration")))
           ELSE IF ErrContains(outcome.e, "InvalidAccessKeyId")
           THEN CheckDetail_fail(
                    Lit("S3 Access Key Validation"),
                    Lit("Invalid access key: ") \o outcome.e,
                    Some(elapsed),
                    Some(Lit("Check the access_key_id in configuration")))
           ELSE IF ErrContains(outcome.e, "SignatureDoesNotMatch")
           THEN CheckDetail_fail(
                    Lit("S3 Secret Key Validation"),
                    Lit("Invalid secret key: ") \o outcome.e,
                    Some(elapsed),
                    Some(Lit("Check the secret_access_key in configuration")))
           ELSE CheckDetail_warning(
                    Lit("S3 Bucket List Permission"),
                    Lit("Bucket listing failed: ") \o outcome.e,
                    Some(elapsed),
                    Some(Lit("This may indicate network issues or other S3 service problems")))

\* a plausible slip: a failed listing ends the verifier
DatanodeS3ListAbort ==
    /\ InS3("s3_list")
    /\ \E outcome \in ListOutcomes :
        /\ Charge(outcome.kind # "Ok")
        /\ cur' = Append(cur, list_detail(outcome, lat))
        /\ ops' = Append(ops, S3OpOut("s3_list", "", outcome))
        /\ pc' = IF list_detail(outcome, lat).status = Fail THEN "s3_return"
                 ELSE "s3_negread"
    /\ UNCHANGED <<model_vars, role, cfg, lat, idx, all_details, conn_result,
                   second_result, result>>

DatanodeS3List ==
    /\ InS3("s3_list")
    /\ \E outcome \in ListOutcomes :
        /\ Charge(outcome.kind # "Ok")
        /\ cur' = Append(cur, list_detail(outcome, lat))
        /\ ops' = Append(ops, S3OpOut("s3_list", "", outcome))
    /\ pc' = "s3_negread"
    /\ UNCHANGED <<model_vars, role, cfg, lat, idx, all_details, conn_result,
                   second_result, result>>

\* outcome of timeout(10 s, op.read(non_existent_key))
NegReadOutcomes == {[kind |-> "Data"], [kind |-> "Elapsed"]}
                     \cup {[kind |-> "Err", e |-> e] : e \in S3ProbeErrors}

\* a plausible slip: data found under the fresh key reported as a failure
negread_detail_lenient(outcome) ==
    CASE outcome.kind = "Err" ->
           IF ErrContains(outcome.e, "NoSuchKey") \/ ErrContains(outcome.e, "NotFound")
           THEN CheckDetail_pass(
                    Lit("S3 Read Permission (Error Handling)"),
                    Lit("Correctly returned 'not found' for non-existent object"),
                    None)
           ELSE IF ErrContains(outcome.e, "AccessDenied") \/ ErrContains(outcome.e, "Forbidden")
           THEN CheckDetail_fail(
                    Lit("S3 Read Permission"),
                    Lit("Access denied for reading objects: ") \o outcome.e,
                    None,
                    Some(Lit("Check if the AKSK has GetObject permission for this bucket")))
           ELSE CheckDetail_warning(
                    Lit("S3 Read Permission (Error Handling)"),
                    Lit("Unexpected error for non-existent object: ") \o outcome.e,
                    None,
                    Some(Lit("This may indicate permission or configuration issues")))
      [] outcome.kind = "Data" ->
           CheckDetail_fail(
               Lit("S3 Read Permission (Error Handling)"),
               Lit("Unexpectedly found data for non-existent object"),
               None,
               Some(Lit("This may indicate caching issues or incorrect object naming")))
      [] outcome.kind = "Elapsed" ->
           CheckDetail_warning(
               Lit("S3 Read Permission (Error Handling)"),
               Lit("Read test for non-existent object timed out"),
               None,
               Some(Lit("Check network connectivity to S3 endpoint")))

\* test_s3_bucket_permissions, test 5: the detail by outcome of the read
negread_detail(outcome) ==
    CASE outcome.kind = "Err" ->
           IF ErrContains(outcome.e, "NoSuchKey") \/ ErrContains(outcome.e, "NotFound")
           THEN CheckDetail_pass(
                    Lit("S3 Read Permission (Error Handling)"),
                    Lit("Correctly returned 'not found' for non-existent object"),
                    None)
           ELSE IF ErrContains(outcome.e, "AccessDenied") \/ ErrContains(outcome.e, "Forbidden")
           THEN CheckDetail_fail(
                    Lit("S3 Read Permission"),
                    Lit("Access denied for reading objects: ") \o outcome.e,
                    None,
                    Some(Lit("Check if the AKSK has GetObject permission for this bucket")))
           ELSE CheckDetail_warning(
                    Lit("S3 Read Permission (Error Handling)"),
                    Lit("Unexpected error for non-existent object: ") \o outcome.e,
                    None,
                    Some(Lit("This may indicate permission or configuration issues")))
      [] outcome.kind = "Data" ->
           CheckDetail_warning(
               Lit("S3 Read Permission (Error Handling)"),
               Lit("Unexpectedly found data for non-existent object"),
               None,
               Some(Lit("This may indicate caching issues or incorrect object naming")))
      [] outcome.kind = "Elapsed" ->
           CheckDetail_warning(
               Lit("S3 Read Permission (Error Handling)"),
               Lit("Read test for non-existent object timed out"),
               None,
               Some(Lit("Check network connectivity to S3 endpoint")))

\* the answer of a store that works: the key does not exist; every other
\* answer uses up one unit of the budget
PlainNegRead == [kind |-> "Err", e |-> ErrText("NoSuchKey")]

DatanodeS3NegRead ==
    /\ InS3("s3_negread")
    /\ \E outcome \in NegReadOutcomes :
        /\ Charge(outcome # PlainNegRead)
        /\ cur' = Append(cur, negread_detail(outcome))
        /\ ops' = Append(ops, S3OpOut("s3_read", NonExistentKey, outcome))
    /\ pc' = "s3_put"
    /\ UNCHANGED <<model_vars, role, cfg, lat, idx, all_details, conn_result,
                   second_result, result>>

S3Outcomes == {[kind |-> "Ok"]} \cup {[kind |-> "Err", e |-> e] : e \in S3OpErrors}

\* a plausible slip: the round trip goes on to the GET after a failed PUT
DatanodeS3PutContinue ==
    /\ InS3("s3_put")
    /\ \E outcome \in S3Outcomes :
        /\ Charge(outcome.kind # "Ok")
        /\ IF outcome.kind = "Ok"
           THEN cur' = Append(cur, CheckDetail_pass(
                           Lit("S3 PUT Operation"),
                           Lit("PUT operation successful"),
                           None))
           ELSE cur' = Append(cur, CheckDetail_fail(
                           Lit("S3 PUT Operation"),
                           Lit("PUT operation failed: ") \o outcome.e,
                           None,
                           Some(Lit("Check S3 credentials, bucket permissions, and network connectivity"))))
        /\ pc' = "s3_get"
        /\ ops' = Append(ops, S3OpOut("s3_write", ProbeKey, outcome.kind))
    /\ UNCHANGED <<model_vars, role, cfg, lat, idx, all_details, conn_result,
                   second_result, result>>

\* check_s3_storage, PUT of the probe object
DatanodeS3Put ==
    /\ InS3("s3_put")
    /\ \E outcome \in S3Outcomes :
        /\ Charge(outcome.kind # "Ok")
        /\ IF outcome.kind = "Ok"
           THEN /\ cur' = Append(cur, CheckDetail_pass(
                              Lit("S3 PUT Operation"),
                              Lit("PUT operation successful"),
                              None))
                /\ pc' = "s3_get"
           ELSE /\ cur' = Append(cur, CheckDetail_fail(
                              Lit("S3 PUT Operation"),
                              Lit("PUT operation failed: ") \o outcome.e,
                              None,
                              Some(Lit("Check S3 credentials, bucket permissions, and network connectivity"))))
                /\ pc' = "s3_return"
        /\ ops' = Append(ops, S3OpOut("s3_write", ProbeKey, outcome.kind))
    /\ UNCHANGED <<model_vars, role, cfg, lat, idx, all_details, conn_result,
                   second_result, result>>

\* outcome of op.read(test_key): the written bytes, other bytes, or an error
GetOutcomes == {[kind |-> "Match"], [kind |-> "Mismatch"]}
                 \cup {[kind |-> "Err", e |-> e] : e \in S3OpErrors}

\* a plausible slip: other bytes than the written ones only warned about
get_detail_lenient(outcome) ==
    CASE outcome.kind = "Match" ->
           CheckDetail_pass(
               Lit("S3 GET Operation"),
               Lit("GET operation successful and data matches"),
               None)
      [] outcome.kind = "Mismatch" ->
           CheckDetail_warning(
               Lit("S3 GET Operation"),
               Lit("GET operation returned incorrect data"),
               None,
               Some(Lit("Check S3 data consistency")))
      [] outcome.kind = "Err" ->
           CheckDetail_fail(
               Lit("S3 GET Operation"),
               Lit("GET operation failed: ") \o outcome.e,
               None,
               Some(Lit("Check S3 read permissions")))

\* check_s3_storage, the detail by outcome of the GET of the probe object
get_detail(outcome) ==
    CASE outcome.kind = "Match" ->
           CheckDetail_pass(
               Lit("S3 GET Operation"),
               Lit("GET operation successful and data matches"),
               None)
      [] outcome.kind = "Mismatch" ->
           CheckDetail_fail(
               Lit("S3 GET Operation"),
               Lit("GET operation returned incorrect data"),
               None,
               Some(Lit("Check S3 data consistency")))
      [] outcome.kind = "Err" ->
           CheckDetail_fail(
               Lit("S3 GET Operation"),
               Lit("GET operation failed: ") \o outcome.e,
               None,
               Some(Lit("Check S3 read permissions")))

\* a plausible slip: the cleanup skipped when the GET did not give the bytes
DatanodeS3GetSkipDelete ==
    /\ InS3("s3_get")
    /\ \E outcome \in GetOutcomes :
        /\ Charge(outcome.kind # "Match")
        /\ cur' = Append(cur, get_detail(outcome))
        /\ ops' = Append(ops, S3OpOut("s3_read", ProbeKey, outcome.kind))
        /\ pc' = IF outcome.kind = "Match" THEN "s3_delete" ELSE "s3_return"
    /\ UNCHANGED <<model_vars, role, cfg, lat, idx, all_details, conn_result,
                   second_result, result>>

\* check_s3_storage, GET of the probe object
DatanodeS3Get ==
    /\ InS3("s3_get")
    /\ \E outcome \in GetOutcomes :
        /\ Charge(outcome.kind # "Match")
        /\ cur' = Append(cur, get_detail(outcome))
        /\ ops' = Append(ops, S3OpOut("s3_read", ProbeKey, outcome.kind))
    /\ pc' = "s3_delete"
    /\ UNCHANGED <<model_vars, role, cfg, lat, idx, all_details, conn_result,
                   second_result, result>>

\* where check_s3_storage goes after the DELETE arm: the branch on
\* self.include_performance
AfterDeleteArm == IF cfg.include_performance THEN "lane_write" ELSE "s3_return"

\* a plausible slip: a failed cleanup reported as a Fail
DatanodeS3DeleteStrict ==
    /\ InS3("s3_delete")
    /\ \E outcome \in S3Outcomes :
        /\ Charge(outcome.kind # "Ok")
        /\ IF outcome.kind = "Ok"
           THEN /\ cur' = Append(cur, CheckDetail_pass(
                              Lit("S3 DELETE Operation"),
                              Lit("DELETE operation successful"),
                              None))
                /\ pc' = "perf_64_write"
           ELSE /\ cur' = Append(cur, CheckDetail_fail(
                              Lit("S3 DELETE Operation"),
                              Lit("DELETE operation failed: ") \o outcome.e,
                              None,
                              Some(Lit("Test object may remain in S3, but this doesn't affect functionality"))))
                /\ pc' = AfterDeleteArm
        /\ ops' = Append(ops, S3OpOut("s3_delete", ProbeKey, outcome.kind))
    /\ idx' = 0
    /\ UNCHANGED <<model_vars, role, cfg, lat, all_details, conn_result,
                   second_result, result>>

\* check_s3_storage, DELETE of the probe object; the Ok arm enters
\* test_s3_performance
DatanodeS3Delete ==
    /\ InS3("s3_delete")
    /\ \E outcome \in S3Outcomes :
        /\ Charge(outcome.kind # "Ok")
        /\ IF outcome.kind = "Ok"
           THEN /\ cur' = Append(cur, CheckDetail_pass(
                              Lit("S3 DELETE Operation"),
                              Lit("DELETE operation successful"),
                              None))
                /\ pc' = "perf_64_write"
           ELSE /\ cur' = Append(cur, CheckDetail_warning(
                              Lit("S3 DELETE Operation"),
                              Lit("DELETE operation failed: ") \o outcome.e,
                              None,
                              Some(Lit("Test object may remain in S3, but this doesn't affect functionality"))))
                /\ pc' = AfterDeleteArm
        /\ ops' = Append(ops, S3OpOut("s3_delete", ProbeKey, outcome.kind))
    /\ idx' = 0
    /\ UNCHANGED <<model_vars, role, cfg, lat, all_details, conn_result,
                   second_result, result>>

\* check_s3_storage, CheckResult::from_details(details) at its end
DatanodeS3Return ==
    /\ InS3("s3_return")
    /\ ReturnSecond(from_details(cur))
    /\ UNCHANGED <<model_vars, role, cfg, lat, faults, idx, conn_result,
                   result, ops>>

\* ------------------------------------------------------------------------
\* Datanode (datanode.rs): test_s3_performance, entered from the Ok arm of
\* the DELETE step
\* ------------------------------------------------------------------------
\* outcome of timeout(.., op.write(..)) or timeout(.., op.read(..))
TimedOutcomes == {[kind |-> "Ok"], [kind |-> "Elapsed"]}
                   \cup {[kind |-> "Err", e |-> e] : e \in S3OpErrors}

perf_64_write_detail(outcome, elapsed) ==
    CASE outcome.kind = "Ok" ->
           CheckDetail_pass(
               Lit("S3 64MB File Write Performance"),
               Lit("64MB write: ") \o Lit(Measured),
               Some(elapsed))
      [] outcome.kind = "Err" ->
           CheckDetail_warning(
               Lit("S3 64MB File Write Performance"),
               Lit("Write test failed: ") \o outcome.e,
               None,
               Some(Lit("Performance test incomplete")))
      [] outcome.kind = "Elapsed" ->
           CheckDetail_warning(
               Lit("S3 64MB File Write Performance"),
               Lit("Write test timed out (>120s)"),
               None,
               Some(Lit("S3 write performance may be slow")))

DatanodePerf64Write ==
    /\ InS3("perf_64_write")
    /\ \E outcome \in TimedOutcomes :
        /\ Charge(outcome.kind # "Ok")
        /\ cur' = Append(cur, perf_64_write_detail(outcome, lat))
        /\ pc' = IF outcome.kind = "Ok" THEN "perf_64_read" ELSE "perf_1g_write"
        /\ ops' = Append(ops, S3OpOut("s3_write", SmallKey, outcome.kind))
    /\ UNCHANGED <<model_vars, role, cfg, lat, idx, all_details, conn_result,
                   second_result, result>>

perf_64_read_detail(outcome, elapsed) ==
    CASE outcome.kind = "Ok" ->
           CheckDetail_pass(
               Lit("S3 64MB File Read Performance"),
               Lit("64MB read: ") \o Lit(Measured),
               Some(elapsed))
      [] outcome.kind = "Err" ->
           CheckDetail_warning(
               Lit("S3 64MB File Read Performance"),
               Lit("Read test failed: ") \o outcome.e,
               None,
               Some(Lit("Performance test incomplete")))
      [] outcome.kind = "Elapsed" ->
           CheckDetail_warning(
               Lit("S3 64MB File Read Performance"),
               Lit("Read test timed out (>120s)"),
               None,
               Some(Lit("S3 read performance may be slow")))

\* test_s3_performance, the timed read of the 64MB object
DatanodePerf64Read ==
    /\ InS3("perf_64_read")
    /\ \E outcome \in TimedOutcomes :
        /\ Charge(outcome.kind # "Ok")
        /\ cur' = Append(cur, perf_64_read_detail(outcome, lat))
        /\ ops' = Append(ops, S3OpOut("s3_read", SmallKey, outcome.kind))
    /\ pc' = "perf_64_delete"
    /\ UNCHANGED <<model_vars, role, cfg, lat, idx, all_details, conn_result,
                   second_result, result>>

\* test_s3_performance, let _ = op.delete(small_key).await after the read
DatanodePerf64Cleanup ==
    /\ InS3("perf_64_delete")
    /\ ops' = Append(ops, S3Op("s3_delete", SmallKey))
    /\ pc' = "perf_1g_write"
    /\ UNCHANGED <<model_vars, role, cfg, lat, faults, idx, cur, all_details,
                   conn_result, second_result, result>>

perf_1g_write_detail(outcome, elapsed) ==
    CASE outcome.kind = "Ok" ->
           CheckDetail_pass(
               Lit("S3 1GB File Write Performance"),
               Lit("1GB write: ") \o Lit(Measured),
               Some(elapsed))
      [] outcome.kind = "Err" ->
           CheckDetail_warning(
               Lit("S3 1GB File Write Performance"),
               Lit("1GB file write test failed: ") \o outcome.e,
               None,
               Some(Lit("May indicate bandwidth or timeout issues")))
      [] outcome.kind = "Elapsed" ->
           CheckDetail_warning(
               Lit("S3 1GB File Write Performance"),
               Lit("1GB file write test timed out (>300s)"),
               None,
               Some(Lit("S3 write performance for large files may be slow")))

\* test_s3_performance, the timed write of the 1GB object
DatanodePerf1GWrite ==
    /\ InS3("perf_1g_write")
    /\ \E outcome \in TimedOutcomes :
        /\ Charge(outcome.kind # "Ok")
        /\ cur' = Append(cur, perf_1g_write_detail(outcome, lat))
        /\ ops' = Append(ops, S3OpOut("s3_write", LargeKey, outcome.kind))
        /\ pc' = IF outcome.kind = "Ok" THEN "perf_1g_delete" ELSE "perf_concurrent"
    /\ UNCHANGED <<model_vars, role, cfg, lat, idx, all_details, conn_result,
                   second_result, result>>

\* test_s3_performance, let _ = op.delete(large_key).await after a
\* successful write
DatanodePerf1GCleanup ==
    /\ InS3("perf_1g_delete")
    /\ ops' = Append(ops, S3Op("s3_delete", LargeKey))
    /\ pc' = "perf_concurrent"
    /\ UNCHANGED <<model_vars, role, cfg, lat, faults, idx, cur, all_details,
                   conn_result, second_result, result>>

\* a plausible slip: a batch that did not fully succeed reported as a Fail
perf_concurrent_detail_strict(successful_ops, concurrent_count, elapsed) ==
    IF successful_ops = concurrent_count
    THEN CheckDetail_pass(
             Lit("S3 Concurrent Operations"),
             ToDec(concurrent_count) \o Lit(" concurrent writes: ") \o Lit(Measured),
             Some(elapsed))
    ELSE CheckDetail_fail(
             Lit("S3 Concurrent Operations"),
             ToDec(successful_ops) \o Lit("/") \o ToDec(concurrent_count)
                 \o Lit(" concurrent writes succeeded: ") \o Lit(Measured),
             Some(elapsed),
             Some(Lit("Some concurrent operations failed or timed out")))

\* test_s3_concurrent_performance: the detail by the number of writers the
\* collector saw succeed in time
perf_concurrent_detail(successful_ops, concurrent_count, elapsed) ==
    IF successful_ops = concurrent_count
    THEN CheckDetail_pass(
             Lit("S3 Concurrent Operations"),
             ToDec(concurrent_count) \o Lit(" concurrent writes: ") \o Lit(Measured),
             Some(elapsed))
    ELSE CheckDetail_warning(
             Lit("S3 Concurrent Operations"),
             ToDec(successful_ops) \o Lit("/") \o ToDec(concurrent_count)
                 \o Lit(" concurrent writes succeeded: ") \o Lit(Measured),
             Some(elapsed),
             Some(Lit("Some concurrent operations failed or timed out")))

\* per-handle wait of the collector of test_s3_concurrent_performance
CollectTimeoutSecs == 10

PerfBatchKey == "stepstone_concurrent_test_{i}"
LaneBatchKey == "stepstone-concurrent-test/{i}"

\* the writers of a batch of n whose write the model lets be answered after
\* the collector has reached their handle: the first two and the last
\* spawned, by their number i
StragglerPositions(n) == {0, 1, n - 1}

\* what the write of a writer returns when it is answered: Ok or Err
StragglerResults == BOOLEAN

\* the spawn loop: every writer task is started, its write is in flight
BatchSpawned(key, n) == [op |-> "s3_write_batch", key |-> key, writers |-> n]

\* the answers to the writes of a batch so far: the handles that gave the
\* collector Ok(Ok(_)), the handles that gave it an Err, and the writes
\* answered Ok whose handle the collector has not reached
BatchAnswered(key, succeeded, failed, ahead) ==
    [op |-> "s3_write_answers", key |-> key, succeeded |-> succeeded,
     failed |-> failed, ahead |-> ahead]

\* timeout(10 s, handle) expired for the handle of a writer; written tells
\* whether the write of that writer has taken effect since
HandleTimeout(key, writer) ==
    [op |-> "handle_timeout", key |-> key, writer |-> writer,
     timeout |-> CollectTimeoutSecs, written |-> FALSE]

\* the spawn loop of the latest batch, by its place in the log
LastBatch(log) ==
    CHOOSE i \in DOMAIN log :
        /\ log[i].op = "s3_write_batch"
        /\ \A j \in (i + 1)..Len(log) : log[j].op # "s3_write_batch"

\* the requests logged since the spawn loop of the latest batch
SinceSpawn(log) == SubSeq(log, LastBatch(log) + 1, Len(log))

\* the answers to the latest batch, by their place in the log
AnswersAt(log) == LastBatch(log) + 1

\* successful_ops / successful_writes: the handles that gave Ok(Ok(_)) in time
SuccessfulWrites(log) == log[AnswersAt(log)].succeeded

\* the handles the collector has gone through, which is the number of the
\* writer whose handle it is at
HandlesTaken(log) ==
    log[AnswersAt(log)].succeeded + log[AnswersAt(log)].failed
        + Len(SelectSeq(SinceSpawn(log), LAMBDA o : o.op = "handle_timeout"))

\* the handle the collector is at gives the result of its write, and the
\* handles after it whose write is answered give theirs without a suspension
HandleTaken(log, ok) ==
    LET at == AnswersAt(log)
    IN  [log EXCEPT ![at] = [@ EXCEPT !.succeeded = @ + log[at].ahead
                                                      + (IF ok THEN 1 ELSE 0),
                                      !.failed = @ + (IF ok THEN 0 ELSE 1),
                                      !.ahead = 0]]

\* timeout(10 s, handle) expires for the handle the collector is at; the
\* handles after it whose write is answered give their result
HandleGivenUp(log, key) ==
    LET at == AnswersAt(log)
    IN  Append([log EXCEPT ![at] = [@ EXCEPT !.succeeded = @ + log[at].ahead,
                                             !.ahead = 0]],
               HandleTimeout(key, HandlesTaken(log)))

\* one more write of the batch is answered Ok while the collector waits for
\* an earlier handle
AnsweredAhead(log) ==
    [log EXCEPT ![AnswersAt(log)].ahead = @ + 1]

\* there are writers after the awaited one whose write is not answered yet
WritesInFlight(log) ==
    /\ \E i \in DOMAIN log : log[i].op = "s3_write_batch"
    /\ HandlesTaken(log) + 1 + log[AnswersAt(log)].ahead
           < log[LastBatch(log)].writers

\* the deletes of the cleanup loop answered so far
DeletesDone(log, key) ==
    IF log[Len(log)].op = "s3_delete_batch" /\ log[Len(log)].key = key
    THEN log[Len(log)].deletes ELSE 0

\* one more delete of the cleanup loop is answered
DeleteAnswered(log, key) ==
    IF DeletesDone(log, key) > 0
    THEN [log EXCEPT ![Len(log)].deletes = @ + 1]
    ELSE Append(log, [op |-> "s3_delete_batch", key |-> key, deletes |-> 1])

\* test_s3_concurrent_performance: the spawn loop; the collector then polls
\* the first handle
DatanodePerfConcurrent ==
    /\ InS3("perf_concurrent")
    /\ ops' = ops \o <<BatchSpawned(PerfBatchKey, ConcurrentCountPerf),
                       BatchAnswered(PerfBatchKey, 0, 0, 0)>>
    /\ pc' = "perf_collect"
    /\ UNCHANGED <<model_vars, role, cfg, lat, faults, idx, cur, all_details,
                   conn_result, second_result, result>>

\* test_s3_concurrent_performance, after the last handle: the detail of the
\* batch; the keys_to_cleanup are those of the writers seen to succeed
PerfCollected(log) ==
    LET successful_ops == SuccessfulWrites(log)
    IN  /\ cur' = Append(cur, perf_concurrent_detail(successful_ops,
                                                     ConcurrentCountPerf, lat))
        /\ pc' = IF successful_ops > 0 THEN "perf_concurrent_cleanup"
                 ELSE AfterDeleteArm
        /\ idx' = 0

\* test_s3_concurrent_performance, the for loop over the handles: the next
\* handle, or the detail after the last one
PerfHandleDone(log) ==
    IF HandlesTaken(log) = ConcurrentCountPerf
    THEN PerfCollected(log)
    ELSE pc' = "perf_collect" /\ UNCHANGED <<idx, cur>>

\* test_s3_concurrent_performance, one handle: the write of its writer is
\* answered and timeout(10 s, handle) gives the collector the result
DatanodePerfHandle ==
    /\ InS3("perf_collect")
    /\ \E ok \in StragglerResults :
        /\ Charge(~ok)
        /\ ops' = HandleTaken(ops, ok)
        /\ PerfHandleDone(HandleTaken(ops, ok))
    /\ UNCHANGED <<model_vars, role, cfg, lat, all_details, conn_result,
                   second_result, result>>

\* test_s3_concurrent_performance, one handle: the write of its writer is
\* not answered yet and the collector is suspended in timeout(10 s, handle)
DatanodePerfHandlePending ==
    /\ InS3("perf_collect")
    /\ HandlesTaken(ops) \in StragglerPositions(ConcurrentCountPerf)
    /\ pc' = "perf_wait"
    /\ UNCHANGED <<model_vars, role, cfg, lat, faults, idx, cur, all_details,
                   conn_result, second_result, result, ops>>

\* test_s3_concurrent_performance: while the collector is suspended the
\* write of another writer is answered
DatanodePerfWriterAhead ==
    /\ InS3("perf_wait")
    /\ WritesInFlight(ops)
    /\ ops' = AnsweredAhead(ops)
    /\ UNCHANGED <<model_vars, role, cfg, pc, lat, faults, idx, cur,
                   all_details, conn_result, second_result, result>>

\* test_s3_concurrent_performance: the awaited writer is answered within
\* the 10 s of its handle
DatanodePerfStragglerAnswers ==
    /\ InS3("perf_wait")
    /\ \E ok \in StragglerResults :
        /\ Charge(~ok)
        /\ ops' = HandleTaken(ops, ok)
        /\ PerfHandleDone(HandleTaken(ops, ok))
    /\ UNCHANGED <<model_vars, role, cfg, lat, all_details, conn_result,
                   second_result, result>>

\* test_s3_concurrent_performance: timeout(10 s, handle) expires, the handle
\* is dropped and the writer task goes on
DatanodePerfGiveUp ==
    /\ InS3("perf_wait")
    /\ Charge(TRUE)
    /\ ops' = HandleGivenUp(ops, PerfBatchKey)
    /\ PerfHandleDone(HandleGivenUp(ops, PerfBatchKey))
    /\ UNCHANGED <<model_vars, role, cfg, lat, all_details, conn_result,
                   second_result, result>>

\* test_s3_concurrent_performance: let _ = op.delete(&key).await, the delete
\* of one of the keys_to_cleanup is answered; after the last one the loop ends
DatanodePerfConcurrentCleanup ==
    /\ InS3("perf_concurrent_cleanup")
    /\ ops' = DeleteAnswered(ops, PerfBatchKey)
    /\ pc' = IF DeletesDone(ops, PerfBatchKey) + 1 = SuccessfulWrites(ops)
             THEN AfterDeleteArm ELSE "perf_concurrent_cleanup"
    /\ UNCHANGED <<model_vars, role, cfg, lat, faults, idx, cur, all_details,
                   conn_result, second_result, result>>

\* a writer whose handle was dropped is answered later, wherever check() is
\* by then, returned or not: its write takes effect and nothing deletes the
\* object, whose key is not among the keys_to_cleanup
DatanodePerfLateWrite ==
    /\ role = "Datanode"
    /\ \E i \in DOMAIN ops :
        /\ ops[i].op = "handle_timeout"
        /\ ~ops[i].written
        /\ ops' = [ops EXCEPT ![i].written = TRUE]
    /\ UNCHANGED <<model_vars, role, cfg, pc, lat, faults, idx, cur, all_details,
                   conn_result, second_result, result>>

\* ------------------------------------------------------------------------
\* Datanode (datanode.rs): performance_test_s3, run when include_performance
\* ------------------------------------------------------------------------
\* performance_test_s3, the write of one payload size
DatanodeLaneWrite ==
    /\ InS3("lane_write")
    /\ idx < Len(TestSizes)
    /\ LET size_name == TestSizes[idx + 1]
       IN  \E outcome \in S3Outcomes :
            /\ Charge(outcome.kind # "Ok")
            /\ IF outcome.kind = "Ok"
               THEN /\ cur' = Append(cur, CheckDetail_pass(
                                  Lit("S3 Write Latency (") \o Lit(size_name) \o Lit(")"),
                                  Lit("Write latency: ") \o Lit(Measured),
                                  Some(lat)))
                    /\ pc' = "lane_read"
                    /\ idx' = idx
               ELSE /\ cur' = Append(cur, CheckDetail_fail(
                                  Lit("S3 Write Test (") \o Lit(size_name) \o Lit(")"),
                                  Lit("Write failed: ") \o outcome.e,
                                  None,
                                  Some(Lit("Check S3 write permissions and connectivity"))))
                    /\ pc' = IF idx + 1 < Len(TestSizes) THEN "lane_write"
                             ELSE "lane_concurrent"
                    /\ idx' = idx + 1
            /\ ops' = Append(ops, S3OpOut("s3_write", SizeKey(size_name), outcome.kind))
    /\ UNCHANGED <<model_vars, role, cfg, lat, all_details, conn_result,
                   second_result, result>>

\* the number of bytes of a payload of performance_test_s3
SizeBytes(size_name) == CASE size_name = "1KB" -> 1024
                          [] size_name = "1MB" -> 1024 * 1024
                          [] size_name = "10MB" -> 10 * 1024 * 1024

\* outcome of op.read(test_key) of a payload of size bytes: all bytes, another
\* number of bytes (half of them, one more), an error
LaneReadOutcomes(size) ==
    {[kind |-> "Ok"]}
      \cup {[kind |-> "Mismatch", len |-> n] : n \in {size \div 2, size + 1}}
      \cup {[kind |-> "Err", e |-> e] : e \in S3OpErrors}

lane_read_detail(size_name, outcome, elapsed) ==
    CASE outcome.kind = "Ok" ->
           CheckDetail_pass(
               Lit("S3 Read Latency (") \o Lit(size_name) \o Lit(")"),
               Lit("Read latency: ") \o Lit(Measured),
               Some(elapsed))
      [] outcome.kind = "Mismatch" ->
           CheckDetail_fail(
               Lit("S3 Read Verification (") \o Lit(size_name) \o Lit(")"),
               Lit("Data size mismatch: expected ") \o ToDec(SizeBytes(size_name))
                   \o Lit(", got ") \o ToDec(outcome.len),
               Some(elapsed),
               Some(Lit("Check S3 data integrity")))
      [] outcome.kind = "Err" ->
           CheckDetail_fail(
               Lit("S3 Read Test (") \o Lit(size_name) \o Lit(")"),
               Lit("Read failed: ") \o outcome.e,
               None,
               Some(Lit("Check S3 read permissions and connectivity")))

\* performance_test_s3, the read of one payload size
DatanodeLaneRead ==
    /\ InS3("lane_read")
    /\ LET size_name == TestSizes[idx + 1]
       IN  \E outcome \in LaneReadOutcomes(SizeBytes(size_name)) :
            /\ Charge(outcome.kind # "Ok")
            /\ cur' = Append(cur, lane_read_detail(size_name, outcome, lat))
            /\ ops' = Append(ops, S3OpOut("s3_read", SizeKey(size_name),
                                          outcome.kind))
    /\ pc' = "lane_delete"
    /\ UNCHANGED <<model_vars, role, cfg, lat, idx, all_details, conn_result,
                   second_result, result>>

\* performance_test_s3, let _ = op.delete(&test_key).await after the read,
\* then the next payload size
DatanodeLaneCleanup ==
    /\ InS3("lane_delete")
    /\ ops' = Append(ops, S3Op("s3_delete", SizeKey(TestSizes[idx + 1])))
    /\ pc' = IF idx + 1 < Len(TestSizes) THEN "lane_write" ELSE "lane_concurrent"
    /\ idx' = idx + 1
    /\ UNCHANGED <<model_vars, role, cfg, lat, faults, cur, all_details,
                   conn_result, second_result, result>>

\* performance_test_concurrent_s3: the detail by the number of successful writes
lane_concurrent_detail(successful_writes, concurrent_count, elapsed) ==
    IF successful_writes = concurrent_count
    THEN CheckDetail_pass(
             Lit("S3 Concurrent Write"),
             Lit("Successfully wrote ") \o ToDec(concurrent_count)
                 \o Lit(" objects concurrently in ") \o Lit(Measured),
             Some(elapsed))
    ELSE CheckDetail_warning(
             Lit("S3 Concurrent Write"),
             Lit("Only ") \o ToDec(successful_writes) \o Lit("/")
                 \o ToDec(concurrent_count) \o Lit(" concurrent writes succeeded"),
             Some(elapsed),
             Some(Lit("Check S3 rate limits and connection pool settings")))

\* performance_test_concurrent_s3: the spawn loop; the collector then polls
\* the first handle
DatanodeLaneConcurrent ==
    /\ InS3("lane_concurrent")
    /\ ops' = ops \o <<BatchSpawned(LaneBatchKey, ConcurrentCountLane),
                       BatchAnswered(LaneBatchKey, 0, 0, 0)>>
    /\ pc' = "lane_collect"
    /\ UNCHANGED <<model_vars, role, cfg, lat, faults, idx, cur, all_details,
                   conn_result, second_result, result>>

\* performance_test_concurrent_s3, after the last handle: the detail of the
\* batch; the test_keys are those of the writers that succeeded
LaneCollected(log) ==
    LET successful_writes == SuccessfulWrites(log)
    IN  /\ cur' = Append(cur, lane_concurrent_detail(successful_writes,
                                                     ConcurrentCountLane, lat))
        /\ pc' = IF successful_writes > 0 THEN "lane_concurrent_cleanup"
                 ELSE "s3_return"

\* performance_test_concurrent_s3, the for loop over the handles: the next
\* handle, or the detail after the last one
LaneHandleDone(log) ==
    IF HandlesTaken(log) = ConcurrentCountLane
    THEN LaneCollected(log)
    ELSE pc' = "lane_collect" /\ UNCHANGED cur

\* performance_test_concurrent_s3, one handle: the write of its writer is
\* answered and handle.await gives the collector the result
DatanodeLaneHandle ==
    /\ InS3("lane_collect")
    /\ \E ok \in StragglerResults :
        /\ Charge(~ok)
        /\ ops' = HandleTaken(ops, ok)
        /\ LaneHandleDone(HandleTaken(ops, ok))
    /\ UNCHANGED <<model_vars, role, cfg, lat, idx, all_details, conn_result,
                   second_result, result>>

\* performance_test_concurrent_s3, one handle: the write of its writer is
\* not answered yet and the collector is suspended in handle.await
DatanodeLaneHandlePending ==
    /\ InS3("lane_collect")
    /\ HandlesTaken(ops) \in StragglerPositions(ConcurrentCountLane)
    /\ pc' = "lane_wait"
    /\ UNCHANGED <<model_vars, role, cfg, lat, faults, idx, cur, all_details,
                   conn_result, second_result, result, ops>>

\* performance_test_concurrent_s3: while the collector is suspended at a
\* handle, for a time or for good, the write of another writer is answered
DatanodeLaneWriterAhead ==
    /\ role = "Datanode" /\ pc \in {"lane_wait", "blocked"}
    /\ WritesInFlight(ops)
    /\ ops' = AnsweredAhead(ops)
    /\ UNCHANGED <<model_vars, role, cfg, pc, lat, faults, idx, cur,
                   all_details, conn_result, second_result, result>>

\* performance_test_concurrent_s3: the awaited writer is answered at last
DatanodeLaneStragglerAnswers ==
    /\ InS3("lane_wait")
    /\ \E ok \in StragglerResults :
        /\ Charge(~ok)
        /\ ops' = HandleTaken(ops, ok)
        /\ LaneHandleDone(HandleTaken(ops, ok))
    /\ UNCHANGED <<model_vars, role, cfg, lat, idx, all_details, conn_result,
                   second_result, result>>

\* performance_test_concurrent_s3: let _ = op.delete(&key).await, the delete
\* of one of the test_keys is answered; after the last one the loop ends
DatanodeLaneConcurrentCleanup ==
    /\ InS3("lane_concurrent_cleanup")
    /\ ops' = DeleteAnswered(ops, LaneBatchKey)
    /\ pc' = IF DeletesDone(ops, LaneBatchKey) + 1 = SuccessfulWrites(ops)
             THEN "s3_return" ELSE "lane_concurrent_cleanup"
    /\ UNCHANGED <<model_vars, role, cfg, lat, faults, idx, cur, all_details,
                   conn_result, second_result, result>>

\* ------------------------------------------------------------------------
\* Metasrv (metasrv.rs)
\* ------------------------------------------------------------------------
Backends == {"etcd_store", "postgres_store", "mysql_store", "memory_store",
             "raft_store"}

StoreAddr == <<"s", ":", "1">>

\* MetasrvConfig as metasrv.rs reads it
MetasrvConfigs ==
    {[backend |-> b, store_addrs |-> l, store_key_prefix |-> None,
      meta_table_name |-> None] :
        b \in Backends, l \in {<<>>, <<StoreAddr>>}}

\* self.config.meta_table_name.as_deref().unwrap_or("greptime_metasrv")
table_name_of(config) ==
    IF config.meta_table_name = None THEN "greptime_metasrv"
    ELSE config.meta_table_name[1]

\* error texts of the coordination store and of the SQL engines
KvErrors == {<<"EtcdError: ", "Unavailable">>}
SqlErrors == {<<"SqlError: ", "PermissionDenied">>}

KvOutcomes == {[kind |-> "Ok"]} \cup {[kind |-> "Err", e |-> e] : e \in KvErrors}
SqlOutcomes == {[kind |-> "Ok"]} \cup {[kind |-> "Err", e |-> e] : e \in SqlErrors}

InMeta(at) == role = "Metasrv" /\ pc = at

\* an operation of the metadata store together with what the store answered
MetaOp(name, answer) == [op |-> name, outcome |-> answer]

\* a plausible slip: the in-memory backend reported through failure()
memory_store_result_failure ==
    failure(Lit("Memory store requires no external dependencies"),
            <<CheckDetail_pass(
                Lit("Memory Store"),
                Lit("Memory store is always available"),
                None)>>)

\* MetasrvChecker::check, the "memory_store" arm
memory_store_result ==
    success(Lit("Memory store requires no external dependencies"),
            <<CheckDetail_pass(
                Lit("Memory Store"),
                Lit("Memory store is always available"),
                None)>>)

\* a plausible slip: the in-memory arm dials the configured store first
MetasrvMemoryDialing ==
    /\ InMeta("check")
    /\ cfg.backend = "memory_store"
    /\ result' = memory_store_result
    /\ pc' = "done"
    /\ ops' = IF cfg.store_addrs = <<>> THEN ops
              ELSE Append(ops, MetaOp("kv_connect", "Ok"))
    /\ UNCHANGED <<model_vars, role, cfg, lat, faults, idx, cur, all_details,
                   conn_result, second_result>>

MetasrvMemory ==
    /\ InMeta("check")
    /\ cfg.backend = "memory_store"
    /\ result' = memory_store_result
    /\ pc' = "done"
    /\ UNCHANGED <<model_vars, role, cfg, lat, faults, idx, cur, all_details,
                   conn_result, second_result, ops>>

\* a plausible slip: the failure does not say which value was rejected
unknown_store_result_unnamed(unknown) ==
    failure(Lit("Unknown store type"),
            <<CheckDetail_fail(
                Lit("Store Type"),
                Lit("Unsupported store type"),
                None,
                Some(Lit("Use one of: etcd_store, postgres_store, mysql_store, memory_store")))>>)

\* MetasrvChecker::check, the arm of any other backend name
unknown_store_result(unknown) ==
    failure(Lit("Unknown store type: ") \o Lit(unknown),
            <<CheckDetail_fail(
                Lit("Store Type"),
                Lit("Unsupported store type: ") \o Lit(unknown),
                None,
                Some(Lit("Use one of: etcd_store, postgres_store, mysql_store, memory_store")))>>)

MetasrvUnknown ==
    /\ InMeta("check")
    /\ cfg.backend \notin {"etcd_store", "postgres_store", "mysql_store",
                           "memory_store"}
    /\ result' = unknown_store_result(cfg.backend)
    /\ pc' = "done"
    /\ UNCHANGED <<model_vars, role, cfg, lat, faults, idx, cur, all_details,
                   conn_result, second_result, ops>>

etcd_connection_fail(e, elapsed) ==
    CheckDetail_fail(
        Lit("Etcd Connection"),
        Lit("Failed to connect to etcd: ") \o e,
        Some(elapsed),
        Some(Lit("Check etcd service status and network connectivity")))

\* a plausible slip: the PUT is sent although the connect failed
MetasrvEtcdConnectContinue ==
    /\ InMeta("check")
    /\ cfg.backend = "etcd_store"
    /\ \E outcome \in KvOutcomes :
        /\ Charge(outcome.kind # "Ok")
        /\ cur' = IF outcome.kind = "Ok" THEN <<>>
                  ELSE <<etcd_connection_fail(outcome.e, lat)>>
        /\ pc' = "etcd_put"
        /\ ops' = Append(ops, MetaOp("kv_connect", outcome.kind))
    /\ UNCHANGED <<model_vars, role, cfg, lat, idx, all_details, conn_result,
                   second_result, result>>

\* check_etcd_new, EtcdStore::with_endpoints
MetasrvEtcdConnect ==
    /\ InMeta("check")
    /\ cfg.backend = "etcd_store"
    /\ \E outcome \in KvOutcomes :
        /\ Charge(outcome.kind # "Ok")
        /\ IF outcome.kind = "Ok"
           THEN /\ cur' = <<>>
                /\ pc' = "etcd_put"
           ELSE /\ cur' = <<etcd_connection_fail(outcome.e, lat)>>
                /\ pc' = "meta_return"
        /\ ops' = Append(ops, MetaOp("kv_connect", outcome.kind))
    /\ UNCHANGED <<model_vars, role, cfg, lat, idx, all_details, conn_result,
                   second_result, result>>

\* check_etcd_new, the two details pushed after a successful PUT
etcd_put_details(elapsed) ==
    <<CheckDetail_pass(
          Lit("Etcd Connection"),
          Lit("Successfully connected to etcd endpoints: ") \o Lit("{store_addrs}"),
          Some(elapsed)),
      CheckDetail_pass(
          Lit("Etcd PUT Operation"),
          Lit("PUT operation successful"),
          None)>>

\* check_etcd_new, PUT of the probe key
MetasrvEtcdPut ==
    /\ InMeta("etcd_put")
    /\ \E outcome \in KvOutcomes :
        /\ Charge(outcome.kind # "Ok")
        /\ IF outcome.kind = "Ok"
           THEN /\ cur' = cur \o etcd_put_details(lat)
                /\ pc' = "etcd_get"
           ELSE /\ cur' = Append(cur, etcd_connection_fail(outcome.e, lat))
                /\ pc' = "meta_return"
        /\ ops' = Append(ops, MetaOp("kv_put", outcome.kind))
    /\ UNCHANGED <<model_vars, role, cfg, lat, idx, all_details, conn_result,
                   second_result, result>>

\* outcome of store.get(test_key): Ok(Some(v)) with the written value or
\* another one, Ok(None), or an error
KvGetOutcomes == {[kind |-> "Match"], [kind |-> "Mismatch"], [kind |-> "Absent"]}
                   \cup {[kind |-> "Err", e |-> e] : e \in KvErrors}

etcd_get_detail(outcome) ==
    CASE outcome.kind = "Match" ->
           CheckDetail_pass(
               Lit("Etcd GET Operation"),
               Lit("GET operation successful and data matches"),
               None)
      [] outcome.kind = "Mismatch" ->
           CheckDetail_fail(
               Lit("Etcd GET Operation"),
               Lit("GET operation returned incorrect data"),
               None,
               Some(Lit("Check etcd data consistency")))
      [] outcome.kind = "Absent" ->
           CheckDetail_fail(
               Lit("Etcd GET Operation"),
               Lit("GET operation returned no data"),
               None,
               Some(Lit("Check etcd connectivity and data persistence")))
      [] outcome.kind = "Err" ->
           CheckDetail_fail(
               Lit("Etcd GET Operation"),
               Lit("GET operation failed: ") \o outcome.e,
               None,
               Some(Lit("Check etcd connectivity and permissions")))

\* check_etcd_new, GET of the probe key (one attempt)
MetasrvEtcdGet ==
    /\ InMeta("etcd_get")
    /\ \E outcome \in KvGetOutcomes :
        /\ Charge(outcome.kind # "Match")
        /\ cur' = Append(cur, etcd_get_detail(outcome))
        /\ ops' = Append(ops, MetaOp("kv_get", outcome.kind))
    /\ pc' = "etcd_delete"
    /\ UNCHANGED <<model_vars, role, cfg, lat, idx, all_details, conn_result,
                   second_result, result>>

etcd_delete_detail(outcome) ==
    IF outcome.kind = "Ok"
    THEN CheckDetail_pass(
             Lit("Etcd DELETE Operation"),
             Lit("DELETE operation successful"),
             None)
    ELSE CheckDetail_fail(
             Lit("Etcd DELETE Operation"),
             Lit("DELETE operation failed: ") \o outcome.e,
             None,
             Some(Lit("Check etcd permissions")))

\* check_etcd_new, DELETE of the probe key
MetasrvEtcdDelete ==
    /\ InMeta("etcd_delete")
    /\ \E outcome \in KvOutcomes :
        /\ Charge(outcome.kind # "Ok")
        /\ cur' = Append(cur, etcd_delete_detail(outcome))
        /\ ops' = Append(ops, MetaOp("kv_delete", outcome.kind))
    /\ pc' = "meta_return"
    /\ UNCHANGED <<model_vars, role, cfg, lat, idx, all_details, conn_result,
                   second_result, result>>

\* a plausible slip: the failure carries no remediation hint
sql_no_address_detail_bare(family) ==
    CheckDetail_fail(
        Lit(family) \o Lit(" Configuration"),
        Lit("No ") \o Lit(family) \o Lit(" address configured"),
        None,
        None)

\* check_postgres_new / check_mysql_new, store_addrs is empty
sql_no_address_detail(family) ==
    CheckDetail_fail(
        Lit(family) \o Lit(" Configuration"),
        Lit("No ") \o Lit(family) \o Lit(" address configured"),
        None,
        Some(Lit("Add ") \o Lit(family) \o Lit(" connection string to store_addrs")))

sql_connect_detail(family, addr, outcome, elapsed) ==
    IF outcome.kind = "Ok"
    THEN CheckDetail_pass(
             Lit(family) \o Lit(" Connection"),
             Lit("Successfully connected to ") \o Lit(family) \o Lit(": ") \o addr,
             Some(elapsed))
    ELSE CheckDetail_fail(
             Lit(family) \o Lit(" Connection"),
             Lit("Failed to connect to ") \o Lit(family) \o Lit(": ") \o outcome.e,
             Some(elapsed),
             Some(Lit("Check connection string, network connectivity, and database availability")))

\* outcome of the catalog query for the metadata table
ExistsOutcomes == {[kind |-> "Exists"], [kind |-> "Absent"]}
                    \cup {[kind |-> "Err", e |-> e] : e \in SqlErrors}

\* a plausible slip: a missing metadata table reported as a failure
sql_exists_detail_strict(table_name, outcome, check_suggestion) ==
    CASE outcome.kind = "Exists" ->
           CheckDetail_pass(
               Lit("Metadata Table Existence"),
               Lit("Table '") \o Lit(table_name) \o Lit("' exists"),
               None)
      [] outcome.kind = "Absent" ->
           CheckDetail_fail(
               Lit("Metadata Table Existence"),
               Lit("Table '") \o Lit(table_name) \o Lit("' does not exist"),
               None,
               Some(Lit("Create the metadata table")))
      [] outcome.kind = "Err" ->
           CheckDetail_fail(
               Lit("Metadata Table Check"),
               Lit("Failed to check table existence: ") \o outcome.e,
               None,
               Some(Lit(check_suggestion)))

sql_exists_detail(table_name, outcome, check_suggestion) ==
    CASE outcome.kind = "Exists" ->
           CheckDetail_pass(
               Lit("Metadata Table Existence"),
               Lit("Table '") \o Lit(table_name) \o Lit("' exists"),
               None)
      [] outcome.kind = "Absent" ->
           CheckDetail_warning(
               Lit("Metadata Table Existence"),
               Lit("Table '") \o Lit(table_name)
                   \o Lit("' does not exist, will be created automatically"),
               None,
               Some(Lit("This is normal for first-time setup")))
      [] outcome.kind = "Err" ->
           CheckDetail_fail(
               Lit("Metadata Table Check"),
               Lit("Failed to check table existence: ") \o outcome.e,
               None,
               Some(Lit(check_suggestion)))

\* check_postgres_new, no address, or PgPool::connect
MetasrvPostgresConnect ==
    /\ InMeta("check")
    /\ cfg.backend = "postgres_store"
    /\ IF cfg.store_addrs = <<>>
       THEN /\ cur' = <<sql_no_address_detail("PostgreSQL")>>
            /\ pc' = "meta_return"
            /\ UNCHANGED <<faults, ops>>
       ELSE \E outcome \in SqlOutcomes :
            /\ Charge(outcome.kind # "Ok")
            /\ cur' = <<sql_connect_detail("PostgreSQL", Head(cfg.store_addrs),
                                           outcome, lat)>>
            /\ pc' = IF outcome.kind = "Ok" THEN "pg_exists" ELSE "meta_return"
            /\ ops' = Append(ops, MetaOp("sql_connect", outcome.kind))
    /\ UNCHANGED <<model_vars, role, cfg, lat, idx, all_details, conn_result,
                   second_result, result>>

\* check_postgres_new, the catalog query
MetasrvPostgresExists ==
    /\ InMeta("pg_exists")
    /\ \E outcome \in ExistsOutcomes :
        /\ Charge(outcome.kind # "Exists")
        /\ cur' = Append(cur, sql_exists_detail(table_name_of(cfg), outcome,
                                "Check database permissions and schema access"))
        /\ pc' = CASE outcome.kind = "Exists" -> "pg_read"
                   [] outcome.kind = "Absent" -> "pg_create"
                   [] outcome.kind = "Err" -> "meta_return"
        /\ ops' = Append(ops, MetaOp("sql_query_exists", outcome.kind))
    /\ UNCHANGED <<model_vars, role, cfg, lat, idx, all_details, conn_result,
                   second_result, result>>

pg_create_detail(table_name, outcome) ==
    IF outcome.kind = "Ok"
    THEN CheckDetail_pass(
             Lit("PostgreSQL Create Permission"),
             Lit("Successfully created/verified table '") \o Lit(table_name) \o Lit("'"),
             None)
    ELSE CheckDetail_fail(
             Lit("PostgreSQL Create Permission"),
             Lit("Failed to create table '") \o Lit(table_name) \o Lit("': ")
                 \o outcome.e,
             None,
             Some(Lit("Grant CREATE permission on the database/schema")))

\* a plausible slip: the read and write probes follow a failed creation too
MetasrvPostgresCreateContinue ==
    /\ InMeta("pg_create")
    /\ \E outcome \in SqlOutcomes :
        /\ Charge(outcome.kind # "Ok")
        /\ cur' = Append(cur, pg_create_detail(table_name_of(cfg), outcome))
        /\ pc' = "pg_read"
        /\ ops' = Append(ops, MetaOp("sql_create_table", outcome.kind))
    /\ UNCHANGED <<model_vars, role, cfg, lat, idx, all_details, conn_result,
                   second_result, result>>

\* test_postgres_create_permissions
MetasrvPostgresCreate ==
    /\ InMeta("pg_create")
    /\ \E outcome \in SqlOutcomes :
        /\ Charge(outcome.kind # "Ok")
        /\ cur' = Append(cur, pg_create_detail(table_name_of(cfg), outcome))
        /\ pc' = IF outcome.kind = "Ok" THEN "pg_read" ELSE "meta_return"
        /\ ops' = Append(ops, MetaOp("sql_create_table", outcome.kind))
    /\ UNCHANGED <<model_vars, role, cfg, lat, idx, all_details, conn_result,
                   second_result, result>>

pg_read_detail(table_name, outcome) ==
    IF outcome.kind = "Ok"
    THEN CheckDetail_pass(
             Lit("PostgreSQL Read Permission"),
             Lit("Successfully read from table '") \o Lit(table_name) \o Lit("'"),
             None)
    ELSE CheckDetail_fail(
             Lit("PostgreSQL Read Permission"),
             Lit("Failed to read from table '") \o Lit(table_name) \o Lit("': ")
                 \o outcome.e,
             None,
             Some(Lit("Grant SELECT permission on the metadata table")))

\* test_postgres_permissions, the SELECT COUNT(*) probe
MetasrvPostgresRead ==
    /\ InMeta("pg_read")
    /\ \E outcome \in SqlOutcomes :
        /\ Charge(outcome.kind # "Ok")
        /\ cur' = Append(cur, pg_read_detail(table_name_of(cfg), outcome))
        /\ pc' = IF outcome.kind = "Ok" THEN "pg_write" ELSE "meta_return"
        /\ ops' = Append(ops, MetaOp("sql_select_count", outcome.kind))
    /\ UNCHANGED <<model_vars, role, cfg, lat, idx, all_details, conn_result,
                   second_result, result>>

pg_write_detail(table_name, outcome) ==
    IF outcome.kind = "Ok"
    THEN CheckDetail_pass(
             Lit("PostgreSQL Write Permission"),
             Lit("Successfully wrote to table '") \o Lit(table_name) \o Lit("'"),
             None)
    ELSE CheckDetail_fail(
             Lit("PostgreSQL Write Permission"),
             Lit("Failed to write to table '") \o Lit(table_name) \o Lit("': ")
                 \o outcome.e,
             None,
             Some(Lit("Grant INSERT/UPDATE permission on the metadata table")))

\* test_postgres_permissions, the upsert of the probe row
MetasrvPostgresWrite ==
    /\ InMeta("pg_write")
    /\ \E outcome \in SqlOutcomes :
        /\ Charge(outcome.kind # "Ok")
        /\ cur' = Append(cur, pg_write_detail(table_name_of(cfg), outcome))
        /\ ops' = Append(ops, MetaOp("sql_upsert", outcome.kind))
        /\ pc' = IF outcome.kind = "Ok" THEN "pg_cleanup" ELSE "meta_return"
    /\ UNCHANGED <<model_vars, role, cfg, lat, idx, all_details, conn_result,
                   second_result, result>>

\* test_postgres_permissions, the deletion of the probe row after a
\* successful upsert, whose result is dropped
MetasrvPostgresCleanup ==
    /\ InMeta("pg_cleanup")
    /\ \E cleanup \in SqlOutcomes :
        /\ Charge(cleanup.kind # "Ok")
        /\ ops' = Append(ops, MetaOp("sql_delete_row", cleanup.kind))
    /\ pc' = "meta_return"
    /\ UNCHANGED <<model_vars, role, cfg, lat, idx, cur, all_details,
                   conn_result, second_result, result>>

\* a plausible slip: a missing address is passed over without a detail
MetasrvMysqlConnectSilent ==
    /\ InMeta("check")
    /\ cfg.backend = "mysql_store"
    /\ IF cfg.store_addrs = <<>>
       THEN /\ cur' = <<>>
            /\ pc' = "meta_return"
            /\ UNCHANGED <<faults, ops>>
       ELSE \E outcome \in SqlOutcomes :
            /\ Charge(outcome.kind # "Ok")
            /\ cur' = <<sql_connect_detail("MySQL", Head(cfg.store_addrs),
                                           outcome, lat)>>
            /\ pc' = IF outcome.kind = "Ok" THEN "my_exists" ELSE "meta_return"
            /\ ops' = Append(ops, MetaOp("sql_connect", outcome.kind))
    /\ UNCHANGED <<model_vars, role, cfg, lat, idx, all_details, conn_result,
                   second_result, result>>

\* check_mysql_new, no address, or MySqlPool::connect
MetasrvMysqlConnect ==
    /\ InMeta("check")
    /\ cfg.backend = "mysql_store"
    /\ IF cfg.store_addrs = <<>>
       THEN /\ cur' = <<sql_no_address_detail("MySQL")>>
            /\ pc' = "meta_return"
            /\ UNCHANGED <<faults, ops>>
       ELSE \E outcome \in SqlOutcomes :
            /\ Charge(outcome.kind # "Ok")
            /\ cur' = <<sql_connect_detail("MySQL", Head(cfg.store_addrs),
                                           outcome, lat)>>
            /\ pc' = IF outcome.kind = "Ok" THEN "my_exists" ELSE "meta_return"
            /\ ops' = Append(ops, MetaOp("sql_connect", outcome.kind))
    /\ UNCHANGED <<model_vars, role, cfg, lat, idx, all_details, conn_result,
                   second_result, result>>

\* check_mysql_new, the catalog query
MetasrvMysqlExists ==
    /\ InMeta("my_exists")
    /\ \E outcome \in ExistsOutcomes :
        /\ Charge(outcome.kind # "Exists")
        /\ cur' = Append(cur, sql_exists_detail(table_name_of(cfg), outcome,
                                "Check database permissions"))
        /\ ops' = Append(ops, MetaOp("sql_query_exists", outcome.kind))
    /\ pc' = "meta_return"
    /\ UNCHANGED <<model_vars, role, cfg, lat, idx, all_details, conn_result,
                   second_result, result>>

\* the verifier's CheckResult::from_details(details), which check() returns
MetasrvReturn ==
    /\ InMeta("meta_return")
    /\ result' = from_details(cur)
    /\ pc' = "done"
    /\ UNCHANGED <<model_vars, role, cfg, lat, faults, idx, cur, all_details,
                   conn_result, second_result, ops>>

\* ------------------------------------------------------------------------
\* Requests awaited without a timeout
\* ------------------------------------------------------------------------
\* the steps of check() that begin with an await written directly, with no
\* tokio::time::timeout around it: the round trip of check_s3_storage, the
\* cleanup deletes of test_s3_performance and of
\* test_s3_concurrent_performance, the operations of performance_test_s3 and
\* of performance_test_concurrent_s3, and every await of metasrv.rs: the
\* connects EtcdStore::with_endpoints, PgPool::connect and
\* MySqlPool::connect at the start of check(), the PUT, GET and DELETE of
\* check_etcd_new and the queries of the two SQL verifiers
UntimedAwaits ==
    [Datanode |-> {"s3_put", "s3_get", "s3_delete",
                   "perf_64_delete", "perf_1g_delete", "perf_concurrent_cleanup",
                   "lane_write", "lane_read", "lane_delete", "lane_collect",
                   "lane_wait", "lane_concurrent_cleanup"},
     Metasrv |-> {"check", "etcd_put", "etcd_get", "etcd_delete",
                  "pg_exists", "pg_create", "pg_read", "pg_write", "pg_cleanup",
                  "my_exists"},
     Frontend |-> {}]

\* check() of the metadata verifier starts with a connect: check_etcd_new
\* calls EtcdStore::with_endpoints whatever store_addrs holds, the two SQL
\* verifiers call Pool::connect when store_addrs has a first entry
DialsStore(config) ==
    \/ config.backend = "etcd_store"
    \/ config.backend \in {"postgres_store", "mysql_store"} /\ config.store_addrs # <<>>

\* the backend accepts such a request and never answers it: the future is
\* never ready and check() stays at that await
AwaitUnanswered ==
    /\ role \in DOMAIN UntimedAwaits
    /\ pc \in UntimedAwaits[role]
    /\ (role = "Metasrv" /\ pc = "check") => DialsStore(cfg)
    /\ Charge(TRUE)
    /\ pc' = "blocked"
    /\ UNCHANGED <<model_vars, role, cfg, lat, idx, cur, all_details,
                   conn_result, second_result, result, ops>>

\* ------------------------------------------------------------------------
\* Specification of a check run: one role checker, one check()
\* ------------------------------------------------------------------------
Roles == {"Frontend", "Datanode", "Metasrv"}

ConfigsOf(r) == CASE r = "Frontend" -> FrontendConfigs
                  [] r = "Datanode" -> DatanodeConfigs
                  [] r = "Metasrv" -> MetasrvConfigs

BatchIdle ==
    /\ b_kind = "none" /\ b_writer = <<>> /\ b_seen = <<>> /\ b_keys = <<>>
    /\ b_deleted = <<>> /\ b_detail = <<>> /\ b_pc = "idle"

StoreIdle ==
    /\ st_backend = "none" /\ st_before = NoResult /\ st_data = NoResult
    /\ st_pc = <<>> /\ st_details = <<>> /\ st_result = <<>>

ModelIdle ==
    /\ rm_in = <<>> /\ rm_out = NoResult
    /\ pa_in = <<>> /\ pa_out = NoResult
    /\ BatchIdle
    /\ StoreIdle

RunIdle ==
    /\ role = "Idle" /\ cfg = NoResult /\ pc = "idle" /\ lat = 0 /\ faults = 0
    /\ idx = 0 /\ cur = <<>> /\ all_details = <<>>
    /\ conn_result = NoResult /\ second_result = NoResult /\ result = NoResult
    /\ ops = <<>>

Init ==
    /\ ModelIdle
    /\ role \in Roles
    /\ cfg \in ConfigsOf(role)
    /\ pc = IF role = "Metasrv" THEN "check" ELSE "conn"
    /\ lat \in 1..MaxLatency
    /\ faults = 0 /\ idx = 0 /\ cur = <<>> /\ all_details = <<>>
    /\ conn_result = NoResult /\ second_result = NoResult /\ result = NoResult
    /\ ops = <<>>

Next ==
    \/ FrontendConnEmpty \/ FrontendProbe \/ FrontendConnDone
    \/ FrontendServerConfig \/ FrontendFinish
    \/ DatanodeNoMetaClient \/ DatanodeConnEmpty \/ DatanodeProbe
    \/ DatanodeConnDone
    \/ DatanodeStorageMissing \/ DatanodeStorageUnknown
    \/ DatanodeStorageOss \/ DatanodeStorageAzblob \/ DatanodeStorageGcs
    \/ DatanodeStorageFile
    \/ DatanodeS3NoBucket \/ DatanodeS3Client \/ DatanodeS3List
    \/ DatanodeS3NegRead \/ DatanodeS3Put \/ DatanodeS3Get \/ DatanodeS3Delete
    \/ DatanodePerf64Write \/ DatanodePerf64Read \/ DatanodePerf64Cleanup
    \/ DatanodePerf1GWrite \/ DatanodePerf1GCleanup
    \/ DatanodePerfConcurrent \/ DatanodePerfHandle
    \/ DatanodePerfHandlePending \/ DatanodePerfWriterAhead
    \/ DatanodePerfStragglerAnswers \/ DatanodePerfGiveUp
    \/ DatanodePerfConcurrentCleanup \/ DatanodePerfLateWrite
    \/ DatanodeLaneWrite \/ DatanodeLaneRead \/ DatanodeLaneCleanup
    \/ DatanodeLaneConcurrent \/ DatanodeLaneHandle
    \/ DatanodeLaneHandlePending \/ DatanodeLaneWriterAhead
    \/ DatanodeLaneStragglerAnswers
    \/ DatanodeLaneConcurrentCleanup
    \/ DatanodeS3Return \/ DatanodeFinish
    \/ MetasrvMemory \/ MetasrvUnknown
    \/ MetasrvEtcdConnect \/ MetasrvEtcdPut \/ MetasrvEtcdGet \/ MetasrvEtcdDelete
    \/ MetasrvPostgresConnect \/ MetasrvPostgresExists \/ MetasrvPostgresCreate
    \/ MetasrvPostgresRead \/ MetasrvPostgresWrite \/ MetasrvPostgresCleanup
    \/ MetasrvMysqlConnect \/ MetasrvMysqlExists
    \/ MetasrvReturn
    \/ AwaitUnanswered

Spec == Init /\ [][Next]_vars

\* ------------------------------------------------------------------------
\* Specification of the result model: a detail list, then one constructor
\* ------------------------------------------------------------------------
DetailLists == SeqsUpTo(SampleDetails, MaxDetails)

InitResult ==
    /\ rm_in \in DetailLists
    /\ rm_out = NoResult
    /\ pa_in = <<>> /\ pa_out = NoResult
    /\ BatchIdle
    /\ StoreIdle
    /\ RunIdle

ApplyFromDetails ==
    /\ rm_out = NoResult
    /\ rm_out' = [ctor |-> "from_details", res |-> from_details(rm_in)]
    /\ UNCHANGED <<rm_in, pa_in, pa_out, batch_vars, run_vars>>

ApplySuccess ==
    /\ rm_out = NoResult
    /\ rm_out' = [ctor |-> "success", res |-> success(Lit("Done"), rm_in)]
    /\ UNCHANGED <<rm_in, pa_in, pa_out, batch_vars, run_vars>>

ApplyFailure ==
    /\ rm_out = NoResult
    /\ rm_out' = [ctor |-> "failure", res |-> failure(Lit("Broken"), rm_in)]
    /\ UNCHANGED <<rm_in, pa_in, pa_out, batch_vars, run_vars>>

NextResult == ApplyFromDetails \/ ApplySuccess \/ ApplyFailure

SpecResult == InitResult /\ [][NextResult]_vars

\* ------------------------------------------------------------------------
\* Specification of the address resolver: an address, then one parse
\* ------------------------------------------------------------------------
MaxBodyLen == 3      \* longest free-form address body

Schemes == {<<>>, HttpPrefix, HttpsPrefix}

\* free-form bodies: every text over the characters the parser looks at
BodyAlphabet == {"h", ":", "/", "8", "x"}
FreeBodies == SeqsUpTo(BodyAlphabet, MaxBodyLen)

\* structured bodies: host ':' port-text path
SampleHosts == {<<>>, <<"h">>, <<"h", ".", "x">>}
SamplePorts == {0, 8, 80, 3002, 65535}
SamplePortTexts ==
    {ToDec(p) : p \in SamplePorts \cup {65536, 70000}}
      \cup {<<>>, <<"x">>, <<"8", "x">>, <<"+", "8">>, <<"-", "8">>, <<"+">>,
            <<"0", "8", "0">>, <<"a", "b", "c">>}
SamplePaths == {<<>>, <<"/">>, <<"/", "x">>, <<"/", "x", "/", "y">>,
                <<"/", "x", ":", "8">>, <<"/", "a", ":", "b">>}
StructuredBodies ==
    {h \o <<":">> \o p \o q : h \in SampleHosts, p \in SamplePortTexts,
                              q \in SamplePaths}

AddrInputs == {s \o b : s \in Schemes, b \in FreeBodies \cup StructuredBodies}

InitAddr ==
    /\ pa_in \in AddrInputs
    /\ pa_out = NoResult
    /\ rm_in = <<>> /\ rm_out = NoResult
    /\ BatchIdle
    /\ StoreIdle
    /\ RunIdle

FrontendParseAddress ==
    /\ pa_out = NoResult
    /\ pa_out' = [who |-> "Frontend", res |-> parse_address(pa_in)]
    /\ UNCHANGED <<pa_in, rm_in, rm_out, batch_vars, run_vars>>

DatanodeParseAddress ==
    /\ pa_out = NoResult
    /\ pa_out' = [who |-> "Datanode", res |-> dn_parse_address(pa_in)]
    /\ UNCHANGED <<pa_in, rm_in, rm_out, batch_vars, run_vars>>

NextAddr == FrontendParseAddress \/ DatanodeParseAddress

SpecAddr == InitAddr /\ [][NextAddr]_vars

\* ------------------------------------------------------------------------
\* Specification of a concurrent write batch: the writer tasks spawned by
\* test_s3_concurrent_performance ("perf", the collector waits at most 10 s
\* for each handle) or by performance_test_concurrent_s3 ("lane", the
\* collector waits for each handle without limit), interleaved with the
\* collector, the emission of the detail and the cleanup
\* ------------------------------------------------------------------------
BatchSize == 3       \* writers of a batch in the interleaving model

BatchKinds == {"perf", "lane"}

\* the key of the i-th writer, i counted from 0
WriterKey(kind, i) ==
    IF kind = "perf" THEN Lit("stepstone_concurrent_test_") \o ToDec(i)
    ELSE Lit("stepstone-concurrent-test/") \o ToDec(i)

\* the detail of the batch by the number of successes the collector counted
batch_detail(kind, successes, concurrent_count, elapsed) ==
    IF kind = "perf"
    THEN perf_concurrent_detail(successes, concurrent_count, elapsed)
    ELSE lane_concurrent_detail(successes, concurrent_count, elapsed)

\* the spawn loop has run: every writer task is in flight
InitBatch ==
    /\ rm_in = <<>> /\ rm_out = NoResult
    /\ pa_in = <<>> /\ pa_out = NoResult
    /\ role = "Idle" /\ cfg = NoResult /\ pc = "idle" /\ faults = 0
    /\ idx = 0 /\ cur = <<>> /\ all_details = <<>>
    /\ conn_result = NoResult /\ second_result = NoResult /\ result = NoResult
    /\ ops = <<>>
    /\ lat \in 1..MaxLatency
    /\ b_kind \in BatchKinds
    /\ b_writer = [i \in 1..BatchSize |-> "running"]
    /\ b_seen = <<>> /\ b_keys = <<>> /\ b_deleted = <<>> /\ b_detail = <<>>
    /\ b_pc = "collect"
    /\ StoreIdle

\* a writer task: op_clone.write(..) returns Ok
BatchWriterSucceeds ==
    /\ b_kind \in BatchKinds
    /\ \E i \in DOMAIN b_writer :
        /\ b_writer[i] = "running"
        /\ b_writer' = [b_writer EXCEPT ![i] = "written"]
    /\ UNCHANGED <<rm_in, rm_out, pa_in, pa_out, run_vars, b_kind, b_seen,
                   b_keys, b_deleted, b_detail, b_pc>>

\* a writer task: op_clone.write(..) returns Err
BatchWriterFails ==
    /\ b_kind \in BatchKinds
    /\ \E i \in DOMAIN b_writer :
        /\ b_writer[i] = "running"
        /\ b_writer' = [b_writer EXCEPT ![i] = "failed"]
    /\ UNCHANGED <<rm_in, rm_out, pa_in, pa_out, run_vars, b_kind, b_seen,
                   b_keys, b_deleted, b_detail, b_pc>>

\* the collector's loop, one handle whose task has finished: a success is
\* counted and its key kept for the cleanup
BatchCollect ==
    /\ b_pc = "collect"
    /\ Len(b_seen) < Len(b_writer)
    /\ LET i == Len(b_seen) + 1
       IN  /\ b_writer[i] # "running"
           /\ IF b_writer[i] = "written"
              THEN /\ b_seen' = Append(b_seen, "ok")
                   /\ b_keys' = Append(b_keys, WriterKey(b_kind, i - 1))
              ELSE /\ b_seen' = Append(b_seen, "err")
                   /\ b_keys' = b_keys
    /\ UNCHANGED <<rm_in, rm_out, pa_in, pa_out, run_vars, b_kind, b_writer,
                   b_deleted, b_detail, b_pc>>

\* the collector's loop of test_s3_concurrent_performance, one handle whose
\* task is still running when the wait expires: the handle is dropped, the
\* task goes on
BatchCollectTimeout ==
    /\ b_pc = "collect" /\ b_kind = "perf"
    /\ Len(b_seen) < Len(b_writer)
    /\ b_writer[Len(b_seen) + 1] = "running"
    /\ b_seen' = Append(b_seen, "elapsed")
    /\ UNCHANGED <<rm_in, rm_out, pa_in, pa_out, run_vars, b_kind, b_writer,
                   b_keys, b_deleted, b_detail, b_pc>>

\* after the loop: the one detail of the batch
BatchEmit ==
    /\ b_pc = "collect"
    /\ Len(b_seen) = Len(b_writer)
    /\ b_detail' = Append(b_detail,
                          batch_detail(b_kind, Len(b_keys), Len(b_writer), lat))
    /\ b_pc' = "cleanup"
    /\ UNCHANGED <<rm_in, rm_out, pa_in, pa_out, run_vars, b_kind, b_writer,
                   b_seen, b_keys, b_deleted>>

\* the cleanup loop, one kept key: let _ = op.delete(&key).await
BatchDelete ==
    /\ b_pc = "cleanup"
    /\ Len(b_deleted) < Len(b_keys)
    /\ b_deleted' = Append(b_deleted, b_keys[Len(b_deleted) + 1])
    /\ UNCHANGED <<rm_in, rm_out, pa_in, pa_out, run_vars, b_kind, b_writer,
                   b_seen, b_keys, b_detail, b_pc>>

\* the batch function returns
BatchReturn ==
    /\ b_pc = "cleanup"
    /\ Len(b_deleted) = Len(b_keys)
    /\ b_pc' = "done"
    /\ UNCHANGED <<rm_in, rm_out, pa_in, pa_out, run_vars, b_kind, b_writer,
                   b_seen, b_keys, b_deleted, b_detail>>

NextBatch ==
    \/ BatchWriterSucceeds \/ BatchWriterFails
    \/ BatchCollect \/ BatchCollectTimeout
    \/ BatchEmit \/ BatchDelete \/ BatchReturn

SpecBatch == InitBatch /\ [][NextBatch]_vars

\* ------------------------------------------------------------------------
\* Specification of check runs against one store: the content of a healthy
\* metadata store, where every request succeeds and has its effect, under
\* the requests of check_etcd_new or of check_postgres_new, sent by runs
\* that interleave at their awaits
\* ------------------------------------------------------------------------
MaxRuns == 2         \* check runs against the same store
Runs == 1..MaxRuns

\* prefixes of the key space a configuration may name: none, or "/"
StorePrefixes == {None, Some(<<"/">>)}

\* the configurations the runs of this specification are given
StoreConfig(backend, prefix) ==
    [backend |-> backend, store_addrs |-> <<StoreAddr>>,
     store_key_prefix |-> prefix, meta_table_name |-> None]

StoreConfigs ==
    {StoreConfig("etcd_store", p) : p \in StorePrefixes}
      \cup {StoreConfig("postgres_store", None)}

\* the text "__stepstone_test", character by character
StepstoneTest ==
    <<"_", "_", "s", "t", "e", "p", "s", "t", "o", "n", "e", "_", "t", "e",
      "s", "t">>

\* format!("{}__stepstone_test", store_key_prefix.as_deref().unwrap_or(""))
etcd_test_key(config) ==
    (IF config.store_key_prefix = None THEN <<>> ELSE config.store_key_prefix[1])
      \o StepstoneTest

\* const TEST_KEY_VALUE: &str = "/__stepstone_test", the key and the value
\* EtcdChecker::check_put_get writes
TEST_KEY_VALUE == <<"/">> \o StepstoneTest

\* b"stepstone_test_value" and the row ('stepstone_test_key',
\* 'stepstone_test_value')
EtcdTestValue ==
    <<"s", "t", "e", "p", "s", "t", "o", "n", "e", "_", "t", "e", "s", "t",
      "_", "v", "a", "l", "u", "e">>
SqlTestKey ==
    <<"s", "t", "e", "p", "s", "t", "o", "n", "e", "_", "t", "e", "s", "t",
      "_", "k", "e", "y">>
SqlTestValue == EtcdTestValue

\* the keys under which runs against a store of this configuration write
\* their probe entries
probe_keys(config) ==
    IF config.backend = "etcd_store"
    THEN {etcd_test_key(config), TEST_KEY_VALUE}
    ELSE {SqlTestKey}

\* content of a store: its tables, and its entries as (key, value) pairs,
\* which are the keys of a coordination store or the rows of the metadata
\* table
put(data, key, value) ==
    [data EXCEPT !.entries = {e \in @ : e[1] # key} \cup {<<key, value>>}]
remove(data, key) ==
    [data EXCEPT !.entries = {e \in @ : e[1] # key}]
lookup(data, key) == {e[2] : e \in {x \in data.entries : x[1] = key}}

ClusterEntry == <<Lit("cluster_key"), Lit("cluster_value")>>

\* contents a store may hold before the first run: nothing, entries of the
\* cluster, or an entry under a key a probe uses
EntrySets(config) ==
    {{}, {ClusterEntry}}
      \cup {{<<k, Lit("cluster_value")>>} : k \in probe_keys(config)}
      \cup {{ClusterEntry, <<k, Lit("cluster_value")>>} : k \in probe_keys(config)}

StoreContents(config) ==
    IF config.backend = "etcd_store"
    THEN {[tables |-> {}, entries |-> es] : es \in EntrySets(config)}
    ELSE {[tables |-> {}, entries |-> {}]}
           \cup {[tables |-> {table_name_of(config)}, entries |-> es] :
                    es \in EntrySets(config)}

\* ASCII code of a character of the probe texts
Letters ==
    <<"a", "b", "c", "d", "e", "f", "g", "h", "i", "j", "k", "l", "m", "n",
      "o", "p", "q", "r", "s", "t", "u", "v", "w", "x", "y", "z">>
ByteOf(c) ==
    CASE c = "/" -> 47
      [] c = "_" -> 95
      [] OTHER -> 96 + (CHOOSE i \in DOMAIN Letters : Letters[i] = c)

\* format!("{:?}", value.value.as_slice()): the bytes in decimal,
\* separated by ", ", between brackets
RECURSIVE DebugList(_)
DebugList(bytes) ==
    IF bytes = <<>> THEN <<>>
    ELSE IF Len(bytes) = 1 THEN ToDec(ByteOf(bytes[1]))
    ELSE ToDec(ByteOf(bytes[1])) \o <<", ">> \o DebugList(Tail(bytes))
DebugBytes(bytes) == <<"[">> \o DebugList(bytes) \o <<"]">>

\* endpoints.iter().map(..).join(",")
RECURSIVE join_endpoints(_)
join_endpoints(endpoints) ==
    IF endpoints = <<>> THEN <<>>
    ELSE IF Len(endpoints) = 1 THEN endpoints[1]
    ELSE endpoints[1] \o <<",">> \o join_endpoints(Tail(endpoints))

\* error::Error::EtcdValueMismatch and its Display
EtcdValueMismatch(endpoints, expect, actual) ==
    [kind |-> "EtcdValueMismatch", endpoints |-> endpoints,
     expect |-> expect, actual |-> actual]
\* the grave accent of the Display text, which a string of this module
\* cannot hold, as a fragment of its own
GraveAccent == "U+0060"
EtcdValueMismatchDisplay(e) ==
    Lit("Inconsistent etcd value from ") \o e.endpoints \o Lit(", expect ")
      \o <<GraveAccent>> \o e.expect \o <<GraveAccent>> \o Lit(", actual: ")
      \o <<GraveAccent>> \o e.actual \o <<GraveAccent>>

\* Ok(()) of check_put_get
OkUnit == [ok |-> TRUE]

InitStore ==
    /\ rm_in = <<>> /\ rm_out = NoResult
    /\ pa_in = <<>> /\ pa_out = NoResult
    /\ BatchIdle
    /\ role = "Idle" /\ cfg \in StoreConfigs /\ pc = "idle" /\ faults = 0
    /\ idx = 0 /\ cur = <<>> /\ all_details = <<>>
    /\ conn_result = NoResult /\ second_result = NoResult /\ result = NoResult
    /\ ops = <<>>
    /\ lat \in 1..MaxLatency
    /\ st_backend = cfg.backend
    /\ st_before \in StoreContents(cfg)
    /\ st_data = st_before
    /\ st_pc = [r \in Runs |-> "check"]
    /\ st_details = [r \in Runs |-> <<>>]
    /\ st_result = [r \in Runs |-> NoResult]

check_vars == <<rm_in, rm_out, pa_in, pa_out, batch_vars, role, cfg, pc, lat,
                faults, idx, cur, all_details, conn_result, second_result,
                result, ops>>

\* run r moves on; what it pushed is appended to its details
StoreStep(r, at, to, pushed) ==
    /\ st_pc[r] = at
    /\ st_pc' = [st_pc EXCEPT ![r] = to]
    /\ st_details' = [st_details EXCEPT ![r] = @ \o pushed]
    /\ UNCHANGED <<check_vars, st_backend, st_before, st_result>>

\* EtcdStore::with_endpoints or PgPool::connect succeeds
StoreConnect(r) ==
    /\ IF st_backend = "etcd_store"
       THEN StoreStep(r, "check", "etcd_put", <<>>)
       ELSE StoreStep(r, "check", "pg_exists",
                      <<sql_connect_detail("PostgreSQL", StoreAddr, [kind |-> "Ok"], lat)>>)
    /\ UNCHANGED st_data

\* check_etcd_new: store.put of the probe key
StoreEtcdPut(r) ==
    /\ StoreStep(r, "etcd_put", "etcd_get", etcd_put_details(lat))
    /\ st_data' = put(st_data, etcd_test_key(cfg), EtcdTestValue)

\* what store.get answers for the content of the store
etcd_get_outcome(data, key) ==
    IF lookup(data, key) = {} THEN [kind |-> "Absent"]
    ELSE IF lookup(data, key) = {EtcdTestValue} THEN [kind |-> "Match"]
    ELSE [kind |-> "Mismatch"]

\* check_etcd_new: store.get of the probe key
StoreEtcdGet(r) ==
    /\ StoreStep(r, "etcd_get", "etcd_delete",
                 <<etcd_get_detail(
                     etcd_get_outcome(st_data, etcd_test_key(cfg)))>>)
    /\ UNCHANGED st_data

\* check_etcd_new: store.delete of the probe key
StoreEtcdDelete(r) ==
    /\ StoreStep(r, "etcd_delete", "return", <<etcd_delete_detail([kind |-> "Ok"])>>)
    /\ st_data' = remove(st_data, etcd_test_key(cfg))

\* check_postgres_new: the catalog query
StorePostgresExists(r) ==
    LET table_name == table_name_of(cfg)
        exists == table_name \in st_data.tables
    IN  /\ StoreStep(r, "pg_exists", IF exists THEN "pg_read" ELSE "pg_create",
                     <<sql_exists_detail(
                         table_name,
                         [kind |-> IF exists THEN "Exists" ELSE "Absent"],
                         "Check database permissions and schema access")>>)
        /\ UNCHANGED st_data

\* test_postgres_create_permissions: CREATE TABLE IF NOT EXISTS
StorePostgresCreate(r) ==
    LET table_name == table_name_of(cfg)
    IN  /\ StoreStep(r, "pg_create", "pg_read",
                     <<pg_create_detail(table_name, [kind |-> "Ok"])>>)
        /\ st_data' = [st_data EXCEPT !.tables = @ \cup {table_name}]

\* test_postgres_permissions: SELECT COUNT(*)
StorePostgresRead(r) ==
    /\ StoreStep(r, "pg_read", "pg_upsert",
                 <<pg_read_detail(table_name_of(cfg),
                                  [kind |-> "Ok"])>>)
    /\ UNCHANGED st_data

\* test_postgres_permissions: INSERT .. ON CONFLICT (key) DO UPDATE
StorePostgresUpsert(r) ==
    /\ StoreStep(r, "pg_upsert", "pg_cleanup",
                 <<pg_write_detail(table_name_of(cfg),
                                   [kind |-> "Ok"])>>)
    /\ st_data' = put(st_data, SqlTestKey, SqlTestValue)

\* test_postgres_permissions: DELETE .. WHERE key = $1
StorePostgresCleanup(r) ==
    /\ StoreStep(r, "pg_cleanup", "return", <<>>)
    /\ st_data' = remove(st_data, SqlTestKey)

\* EtcdChecker::try_new: EtcdStore::with_endpoints(endpoints, usize::MAX)
EtcdCheckerTryNew(r) ==
    /\ st_backend = "etcd_store"
    /\ StoreStep(r, "check", "checker_put", <<>>)
    /\ UNCHANGED st_data

\* EtcdChecker::check_put_get: put of TEST_KEY_VALUE under TEST_KEY_VALUE
EtcdCheckerPut(r) ==
    /\ StoreStep(r, "checker_put", "checker_get", <<>>)
    /\ st_data' = put(st_data, TEST_KEY_VALUE, TEST_KEY_VALUE)

\* EtcdChecker::check_put_get: get of the key; no entry and an entry with
\* another value return Err(EtcdValueMismatch) and leave the entry
EtcdCheckerGet(r) ==
    /\ st_pc[r] = "checker_get"
    /\ LET value == lookup(st_data, TEST_KEY_VALUE)
           endpoints == join_endpoints(cfg.store_addrs)
       IN  IF value = {TEST_KEY_VALUE}
           THEN /\ st_pc' = [st_pc EXCEPT ![r] = "checker_delete"]
                /\ UNCHANGED st_result
           ELSE /\ st_pc' = [st_pc EXCEPT ![r] = "done"]
                /\ st_result' =
                     [st_result EXCEPT ![r] =
                        Err(EtcdValueMismatch(
                              endpoints, TEST_KEY_VALUE,
                              IF value = {} THEN Lit("None")
                              ELSE DebugBytes(CHOOSE v \in value : TRUE)))]
    /\ UNCHANGED <<check_vars, st_backend, st_before, st_data, st_details>>

\* EtcdChecker::check_put_get: delete of the key, then Ok(())
EtcdCheckerDelete(r) ==
    /\ st_pc[r] = "checker_delete"
    /\ st_pc' = [st_pc EXCEPT ![r] = "done"]
    /\ st_data' = remove(st_data, TEST_KEY_VALUE)
    /\ st_result' = [st_result EXCEPT ![r] = OkUnit]
    /\ UNCHANGED <<check_vars, st_backend, st_before, st_details>>

\* CheckResult::from_details(details), which check() returns
StoreReturn(r) ==
    /\ st_pc[r] = "return"
    /\ st_pc' = [st_pc EXCEPT ![r] = "done"]
    /\ st_result' = [st_result EXCEPT ![r] = from_details(st_details[r])]
    /\ UNCHANGED <<check_vars, st_backend, st_before, st_data, st_details>>

NextStore ==
    \E r \in Runs :
        \/ StoreConnect(r)
        \/ StoreEtcdPut(r) \/ StoreEtcdGet(r) \/ StoreEtcdDelete(r)
        \/ StorePostgresExists(r) \/ StorePostgresCreate(r)
        \/ StorePostgresRead(r) \/ StorePostgresUpsert(r)
        \/ StorePostgresCleanup(r)
        \/ StoreReturn(r)
        \/ EtcdCheckerTryNew(r)
        \/ EtcdCheckerPut(r) \/ EtcdCheckerGet(r) \/ EtcdCheckerDelete(r)

SpecStore == InitStore /\ [][NextStore]_vars

\* ------------------------------------------------------------------------
\* Properties of the result model (checked under SpecResult)
\* ------------------------------------------------------------------------
NoFail(details) == \A i \in DOMAIN details : details[i].status # Fail

\* sum of the durations at the positions in idxs
RECURSIVE SumAt(_, _)
SumAt(details, idxs) ==
    IF idxs = {} THEN 0
    ELSE LET i == CHOOSE j \in idxs : TRUE
         IN  details[i].duration[1] + SumAt(details, idxs \ {i})

WithDuration(details) == {i \in DOMAIN details : details[i].duration # None}

\* C1: for every detail list, the empty one included, from_details reports
\* success exactly when no detail is a Fail; a Warning never makes it false.
C1_SuccessIffNoFail ==
    (rm_out # NoResult /\ rm_out.ctor = "from_details")
        => (rm_out.res.success <=> NoFail(rm_in))

C1_Witness ==
    /\ rm_out # NoResult /\ rm_out.ctor = "from_details"
    /\ \E i \in DOMAIN rm_in : rm_in[i].status = Warning
    /\ NoFail(rm_in)
    /\ rm_out.res.success

\* C2: whichever constructor built the result, total_duration is None exactly
\* when no detail has a duration, and otherwise is the sum of the durations
\* that are present.
C2_TotalDuration ==
    rm_out # NoResult =>
        /\ (rm_out.res.total_duration = None <=> WithDuration(rm_in) = {})
        /\ (WithDuration(rm_in) # {} =>
               rm_out.res.total_duration = Some(SumAt(rm_in, WithDuration(rm_in))))

C2_Witness ==
    /\ rm_out # NoResult /\ rm_out.ctor = "failure"
    /\ Len(rm_in) = 3
    /\ Cardinality(WithDuration(rm_in)) = 2
    /\ rm_out.res.total_duration = Some(3)

\* ------------------------------------------------------------------------
\* Properties of a check run (checked under Spec)
\* ------------------------------------------------------------------------
Probing == role \in {"Frontend", "Datanode"}

\* the endpoint list the connectivity probe of this run reads
Endpoints ==
    CASE role = "Frontend" -> cfg.metasrv_addrs
      [] role = "Datanode" /\ cfg.meta_client # None -> cfg.meta_client[1].metasrv_addrs
      [] OTHER -> <<>>

\* the resolver of the role checker of this run
Resolver(addr) == IF role = "Frontend" THEN parse_address(addr)
                  ELSE dn_parse_address(addr)

ConnDone == Probing /\ conn_result # NoResult

ConnectOps == SelectSeq(ops, LAMBDA o : o.op = "connect")
ParseOps == SelectSeq(ops, LAMBDA o : o.op = "parse")

\* positions of the endpoints whose address parses, in order
Parseable ==
    SelectSeq([i \in 1..Len(Endpoints) |-> i], LAMBDA i : Resolver(Endpoints[i]).ok)

\* C3: the result check() returns has success exactly when none of its
\* details is a Fail, for every role, also where the result comes from the
\* explicit-verdict constructors success and failure.
C3_VerdictMatchesDetails ==
    pc = "done" => (result.success <=> NoFail(result.details))

C3_Witness ==
    /\ pc = "done" /\ role = "Metasrv" /\ cfg.backend = "memory_store"
    /\ result.success /\ Len(result.details) = 1

\* C4 as stated: every role checker runs a connectivity sub-check and then a
\* second sub-check, and returns the details of the first followed by those
\* of the second.
C4_Original ==
    pc = "done" =>
        /\ conn_result # NoResult /\ second_result # NoResult
        /\ result.details = conn_result.details \o second_result.details

\* C4: the Frontend and the Datanode checker run the connectivity sub-check
\* first and their second sub-check after it, also when the first produced a
\* Fail, and return the details of the first followed by those of the second,
\* every connectivity operation preceding every other operation; the Metasrv
\* checker runs no connectivity sub-check.
C4_SubCheckOrder ==
    /\ (second_result # NoResult => conn_result # NoResult)
    /\ (Probing /\ pc = "done") =>
           /\ conn_result # NoResult /\ second_result # NoResult
           /\ result.details = conn_result.details \o second_result.details
    /\ \A i \in 1..(Len(ops) - 1) :
           ops[i].op \notin {"parse", "connect"}
               => ops[i + 1].op \notin {"parse", "connect"}
    /\ (role = "Metasrv" => conn_result = NoResult /\ ConnectOps = <<>>)

C4_Witness ==
    /\ role = "Datanode" /\ pc = "done"
    /\ ~NoFail(conn_result.details)
    /\ Len(conn_result.details) = 2
    /\ Len(second_result.details) >= 2
    /\ result.details = conn_result.details \o second_result.details

\* C5: for a non-empty list of n endpoints the connectivity probe returns n
\* details, the i-th one about the i-th endpoint (the Fail of its address, or
\* the outcome of its connect), and every endpoint whose address parses is
\* connected to, whatever stands before it in the list.
C5_OneDetailPerEndpoint ==
    (ConnDone /\ Endpoints # <<>>) =>
        /\ Len(conn_result.details) = Len(Endpoints)
        /\ \A i \in DOMAIN Endpoints :
             LET d == conn_result.details[i]
                 a == Endpoints[i]
             IN  /\ Contains(d.message, a)
                 /\ IF Resolver(a).ok
                    THEN d.item = Lit("Metasrv Connectivity ") \o ToDec(i)
                    ELSE /\ d.item = Lit("Metasrv Address ") \o ToDec(i) \o Lit(" Parsing")
                         /\ d.status = Fail
        /\ Len(ConnectOps) = Len(Parseable)
        /\ \A k \in DOMAIN ConnectOps :
             ConnectOps[k].host = Resolver(Endpoints[Parseable[k]]).host

C5_Witness ==
    /\ ConnDone /\ Len(Endpoints) = 2
    /\ ~Resolver(Endpoints[1]).ok /\ Resolver(Endpoints[2]).ok
    /\ Len(conn_result.details) = 2
    /\ Len(ConnectOps) = 1

\* C6: with an empty endpoint list, or without a meta_client section, the
\* connectivity probe returns one Fail detail that names the missing
\* configuration, and neither parses an address nor connects.
C6_EmptyEndpoints ==
    (ConnDone /\ Endpoints = <<>>) =>
        /\ Len(conn_result.details) = 1
        /\ conn_result.details[1].status = Fail
        /\ conn_result.details[1].item = Lit("Metasrv Configuration")
        /\ conn_result.details[1].message \in
               {Lit("No metasrv addresses configured"),
                Lit("No meta_client configuration found")}
        /\ ParseOps = <<>> /\ ConnectOps = <<>>

C6_Witness ==
    /\ ConnDone /\ role = "Frontend" /\ cfg.metasrv_addrs = <<>>
    /\ pc = "done"
    /\ conn_result.details[1].status = Fail

FailedToConnect == Lit("Failed to connect to metasrv at ")
TimedOut == Lit(" timed out")

\* C7: for an endpoint whose address parses, the connect is bounded by 10 s
\* and its detail is Pass exactly when the connect completed; a connect error
\* gives a Fail whose message says "Failed to connect" and carries the error
\* text; an elapsed timeout gives a Fail whose message says "timed out"; no
\* outcome gives a Warning.
C7_ConnectClassification ==
    ConnDone =>
        /\ Len(ConnectOps) = Len(Parseable)
        /\ \A k \in DOMAIN ConnectOps :
             LET o == ConnectOps[k]
                 d == conn_result.details[Parseable[k]]
             IN  /\ o.timeout = 10
                 /\ d.status # Warning
                 /\ (d.status = Pass <=> o.outcome.kind = "Connected")
                 /\ o.outcome.kind = "Error" =>
                        /\ d.status = Fail
                        /\ Contains(d.message, FailedToConnect)
                        /\ Contains(d.message, Lit(o.outcome.text))
                        /\ ~Contains(d.message, TimedOut)
                 /\ o.outcome.kind = "Elapsed" =>
                        /\ d.status = Fail
                        /\ Contains(d.message, TimedOut)
                        /\ ~Contains(d.message, FailedToConnect)

C7_Witness ==
    /\ ConnDone /\ role = "Frontend" /\ Len(ConnectOps) = 2
    /\ ConnectOps[1].outcome.kind = "Error"
    /\ ConnectOps[2].outcome.kind = "Elapsed"
    /\ conn_result.details[1].status = Fail
    /\ conn_result.details[2].status = Fail

\* ------------------------------------------------------------------------
\* Properties of the address resolver (checked under SpecAddr)
\* ------------------------------------------------------------------------
Parsed == pa_out # NoResult

\* the address without a leading "http://" or "https://"
WithoutScheme(addr) ==
    IF starts_with(addr, HttpPrefix) THEN SubSeq(addr, 8, Len(addr))
    ELSE IF starts_with(addr, HttpsPrefix) THEN SubSeq(addr, 9, Len(addr))
    ELSE addr

HasColon(s) == \E i \in DOMAIN s : s[i] = ":"

PathsNoColon == {q \in SamplePaths : ~HasColon(q)}

\* C8 as stated: scheme, host, ':', decimal port and any trailing path parse
\* to (host, port).
C8_Original ==
    Parsed =>
        \A s \in Schemes, h \in SampleHosts, p \in SamplePorts, q \in SamplePaths :
            pa_in = s \o h \o <<":">> \o ToDec(p) \o q => pa_out.res = Ok(h, p)

\* C8: scheme, host, ':', decimal port and a trailing path that contains no
\* ':' parse to (host, port), the pair the bare host:port parses to.
C8_SchemeAndPathStripped ==
    Parsed =>
        \A s \in Schemes, h \in SampleHosts, p \in SamplePorts, q \in PathsNoColon :
            pa_in = s \o h \o <<":">> \o ToDec(p) \o q =>
                /\ pa_out.res = Ok(h, p)
                /\ pa_out.res = parse_address(h \o <<":">> \o ToDec(p))
                /\ pa_out.res = dn_parse_address(h \o <<":">> \o ToDec(p))

C8_Witness ==
    /\ Parsed
    /\ pa_in = HttpsPrefix \o <<"h", ".", "x", ":", "6", "5", "5", "3", "5", "/", "x", "/", "y">>
    /\ pa_out.res = Ok(<<"h", ".", "x">>, 65535)

\* C9: the answer is MissingPort exactly when the address without its scheme
\* has no ':'; the ':' of the scheme is never the separator.
C9_MissingPort ==
    Parsed =>
        ((~pa_out.res.ok /\ pa_out.res.err.kind = "MissingPort")
            <=> ~HasColon(WithoutScheme(pa_in)))

C9_Witness ==
    /\ Parsed
    /\ pa_in = HttpPrefix \o <<"h">>
    /\ ~pa_out.res.ok /\ pa_out.res.err.kind = "MissingPort"

\* the text after the last ':' up to the first '/' after it
PortText(s) ==
    LET last == CHOOSE i \in DOMAIN s : s[i] = ":" /\ \A j \in DOMAIN s : s[j] = ":" => j <= i
        after == SubSeq(s, last + 1, Len(s))
        stops == {i \in DOMAIN after : after[i] = "/"}
    IN  IF stops = {} THEN after
        ELSE SubSeq(after, 1, (CHOOSE i \in stops : \A j \in stops : i <= j) - 1)

\* value of a run of decimal digits
RECURSIVE DecValue(_)
DecValue(s) == IF s = <<>> THEN 0
               ELSE 10 * DecValue(SubSeq(s, 1, Len(s) - 1)) + DigitVal(s[Len(s)])

\* a decimal integer in 0..65535, with or without a '+' before it
ValidPortText(s) ==
    LET digits == IF s # <<>> /\ s[1] = "+" THEN Tail(s) ELSE s
    IN  /\ digits # <<>>
        /\ \A i \in DOMAIN digits : digits[i] \in DecDigits
        /\ DecValue(digits) <= 65535

\* C10 as stated: a port text that is no decimal integer in 0..65535 gives
\* InvalidPort, and the text of the error contains the address as the caller
\* passed it and the port text.
C10_Original ==
    (Parsed /\ HasColon(WithoutScheme(pa_in))
            /\ ~ValidPortText(PortText(WithoutScheme(pa_in)))) =>
        /\ ~pa_out.res.ok
        /\ pa_out.res.err.kind = "InvalidPort"
        /\ Contains(ErrorDisplay(pa_out.res.err), pa_in)
        /\ Contains(ErrorDisplay(pa_out.res.err), PortText(WithoutScheme(pa_in)))

\* ------------------------------------------------------------------------
\* Properties of the object-storage verifier (checked under Spec)
\* ------------------------------------------------------------------------
\* a run of the S3 verifier behind a configured bucket
S3Run ==
    /\ role = "Datanode" /\ cfg.storage # None
    /\ storage_type_of(cfg) = "S3" /\ cfg.storage[1].bucket # None

\* the details the storage verifier has emitted so far
StorageEmitted ==
    IF second_result # NoResult THEN second_result.details
    ELSE IF pc \in {"conn", "second"} THEN <<>> ELSE cur

StorageReturned == role = "Datanode" /\ second_result # NoResult

PutItem == Lit("S3 PUT Operation")
GetItem == Lit("S3 GET Operation")
DeleteItem == Lit("S3 DELETE Operation")

\* the details of the round trip, in emission order
RoundTripDetails ==
    SelectSeq(StorageEmitted, LAMBDA d : d.item \in {PutItem, GetItem, DeleteItem})

\* the requests sent to the store, and those about the probe object
StoreOpNames == {"s3_list", "s3_read", "s3_write", "s3_delete",
                 "s3_write_batch", "s3_delete_batch"}
StoreOps == SelectSeq(ops, LAMBDA o : o.op \in StoreOpNames)
ProbeOps == SelectSeq(StoreOps, LAMBDA o : o.key = ProbeKey)

OpNames(seq) == [i \in DOMAIN seq |-> seq[i].op]
ItemsOf(seq) == [i \in DOMAIN seq |-> seq[i].item]

\* C11: when the write of the probe object fails, the round trip consists of
\* that write alone: its detail is a Fail, the probe key is neither read nor
\* deleted, and no read or delete detail is emitted.
C11_WriteFailureStopsRoundTrip ==
    (S3Run /\ ProbeOps # <<>> /\ ProbeOps[1].outcome = "Err") =>
        /\ ProbeOps = <<S3OpOut("s3_write", ProbeKey, "Err")>>
        /\ ItemsOf(RoundTripDetails) = <<PutItem>>
        /\ RoundTripDetails[1].status = Fail

C11_Witness ==
    /\ S3Run /\ pc = "done"
    /\ ProbeOps = <<S3OpOut("s3_write", ProbeKey, "Err")>>
    /\ ItemsOf(RoundTripDetails) = <<PutItem>>
    /\ ~result.success

\* C12: when the write of the probe object succeeds, the verifier returns
\* with one write, one read and one delete detail, in that order, and has
\* written, read and deleted the probe key in that order, whether the read
\* gave the written bytes, other bytes or an error.
C12_RoundTripComplete ==
    (S3Run /\ StorageReturned /\ ProbeOps # <<>> /\ ProbeOps[1].outcome = "Ok") =>
        /\ OpNames(ProbeOps) = <<"s3_write", "s3_read", "s3_delete">>
        /\ ProbeOps[2].outcome \in {"Match", "Mismatch", "Err"}
        /\ ItemsOf(RoundTripDetails) = <<PutItem, GetItem, DeleteItem>>

C12_Witness ==
    /\ S3Run /\ pc = "done"
    /\ OpNames(ProbeOps) = <<"s3_write", "s3_read", "s3_delete">>
    /\ ProbeOps[2].outcome = "Err"
    /\ ItemsOf(RoundTripDetails) = <<PutItem, GetItem, DeleteItem>>

\* C13: when the store accepts the write and the read gives other bytes, the
\* write detail is Pass and the read detail is a Fail whose message is not
\* the message of a read error; the run has success = false.
C13_MismatchFailsRead ==
    (S3Run /\ StorageReturned /\ Len(ProbeOps) >= 2
       /\ ProbeOps[2].outcome = "Mismatch") =>
        /\ RoundTripDetails[1].item = PutItem
        /\ RoundTripDetails[1].status = Pass
        /\ RoundTripDetails[2].item = GetItem
        /\ RoundTripDetails[2].status = Fail
        /\ ~Contains(RoundTripDetails[2].message, Lit("GET operation failed: "))
        /\ \A e \in S3OpErrors :
               RoundTripDetails[2].message # get_detail([kind |-> "Err", e |-> e]).message
        /\ (pc = "done" => ~result.success)

C13_Witness ==
    /\ S3Run /\ pc = "done"
    /\ Len(ProbeOps) = 3 /\ ProbeOps[2].outcome = "Mismatch"
    /\ RoundTripDetails[1].status = Pass
    /\ RoundTripDetails[2].status = Fail
    /\ ~result.success

\* the details of the run other than the delete detail of the round trip
OtherThanDelete(details) == SelectSeq(details, LAMBDA d : d.item # DeleteItem)
AllPass(details) == \A i \in DOMAIN details : details[i].status = Pass

\* C14: when the delete of the probe object fails, its detail is a Warning,
\* and a run all of whose other details are Pass has success = true.
C14_DeleteFailureIsWarning ==
    (S3Run /\ StorageReturned /\ Len(ProbeOps) = 3
       /\ ProbeOps[3].outcome = "Err") =>
        /\ RoundTripDetails[3].item = DeleteItem
        /\ RoundTripDetails[3].status = Warning
        /\ (pc = "done" /\ AllPass(OtherThanDelete(result.details)))
               => result.success

C14_Witness ==
    /\ S3Run /\ pc = "done"
    /\ Len(ProbeOps) = 3 /\ ProbeOps[3].outcome = "Err"
    /\ RoundTripDetails[3].status = Warning
    /\ Len(OtherThanDelete(result.details)) >= 5
    /\ AllPass(OtherThanDelete(result.details))
    /\ result.success

\* the details of the two performance lanes, by the head of their item
PerfItemHeads ==
    {"S3 64MB File Write Performance", "S3 64MB File Read Performance",
     "S3 1GB File Write Performance", "S3 Concurrent Operations",
     "S3 Write Latency (", "S3 Read Latency (", "S3 Read Verification (",
     "S3 Write Test (", "S3 Read Test (", "S3 Concurrent Write"}
IsPerfDetail(d) == d.item[1] \in PerfItemHeads
PerfDetails(details) == SelectSeq(details, IsPerfDetail)
NonPerfDetails(details) == SelectSeq(details, LAMBDA d : ~IsPerfDetail(d))

\* C15 as stated: without include_performance the only requests sent to the
\* store are the list probe, the negative read probe and the write, read and
\* delete of the probe object, and the result holds no performance detail.
C15_Original ==
    (S3Run /\ pc = "done" /\ ~cfg.include_performance) =>
        /\ \A i \in DOMAIN StoreOps :
             LET o == StoreOps[i]
             IN  \/ o.op = "s3_list"
                 \/ o.op = "s3_read" /\ o.key \in {NonExistentKey, ProbeKey}
                 \/ o.op \in {"s3_write", "s3_delete"} /\ o.key = ProbeKey
        /\ PerfDetails(result.details) = <<>>

\* C16 as stated: an operation error or a timeout of a payload-size or
\* concurrency probe of the performance lanes gives a Warning, never a Fail,
\* and a run whose other details hold no Fail has success = true.
C16_Original ==
    (S3Run /\ pc = "done") =>
        /\ \A i \in DOMAIN result.details :
             LET d == result.details[i]
             IN  (IsPerfDetail(d) /\ d.item[1] # "S3 Read Verification (")
                     => d.status # Fail
        /\ NoFail(NonPerfDetails(result.details)) => result.success

\* ------------------------------------------------------------------------
\* Properties of a concurrent write batch (checked under SpecBatch)
\* ------------------------------------------------------------------------
\* how many handles gave the collector a success, how many writes succeeded
SeenOk == Cardinality({i \in DOMAIN b_seen : b_seen[i] = "ok"})
Written == {i \in DOMAIN b_writer : b_writer[i] = "written"}
Ratio(k, n) == ToDec(k) \o Lit("/") \o ToDec(n)
DeletedKeys == {b_deleted[j] : j \in DOMAIN b_deleted}

\* C17 as stated: at the moment the detail of the batch is emitted it is
\* Pass exactly when all N writes have succeeded, and otherwise a Warning
\* naming k/N for the number k of writes that have succeeded.
C17_Original ==
    [][(b_detail = <<>> /\ b_detail' # <<>>) =>
          LET d == b_detail'[1]
              k == Cardinality(Written)
          IN  /\ (d.status = Pass <=> k = BatchSize)
              /\ k < BatchSize =>
                     /\ d.status = Warning
                     /\ Contains(d.message, Ratio(k, BatchSize))]_vars

\* C17: exactly one detail is emitted for the batch, never a Fail: Pass
\* exactly when every handle gave the collector a success, otherwise a
\* Warning naming k/N for the number k of successes the collector got. A
\* success the collector got is a write that succeeded; without a wait limit
\* the converse holds too, with the 10 s wait a write still running when its
\* wait expired is not counted.
C17_BatchVerdict ==
    /\ Len(b_detail) <= 1
    /\ b_pc \in {"cleanup", "done"} => Len(b_detail) = 1
    /\ \A i \in DOMAIN b_seen :
         /\ b_seen[i] = "ok" => b_writer[i] = "written"
         /\ b_seen[i] = "err" => b_writer[i] = "failed"
         /\ b_seen[i] = "elapsed" => b_kind = "perf"
         /\ b_kind = "lane" => (b_seen[i] = "ok" <=> b_writer[i] = "written")
    /\ b_detail # <<>> =>
         LET d == b_detail[1]
         IN  /\ Len(b_seen) = BatchSize
             /\ d.status # Fail
             /\ (d.status = Pass <=> SeenOk = BatchSize)
             /\ SeenOk < BatchSize =>
                    /\ d.status = Warning
                    /\ Contains(d.message, Ratio(SeenOk, BatchSize))
             /\ b_kind = "lane" => SeenOk = Cardinality(Written)

C17_Witness ==
    /\ b_pc = "done" /\ b_kind = "perf"
    /\ b_seen = <<"elapsed", "ok", "err">>
    /\ b_detail[1].status = Warning
    /\ Contains(b_detail[1].message, Ratio(1, BatchSize))

\* C18 as stated: when the batch function has returned, a delete has been
\* attempted for the key of every writer whose write succeeded.
C18_Original ==
    b_pc = "done" =>
        \A i \in Written : WriterKey(b_kind, i - 1) \in DeletedKeys

\* ------------------------------------------------------------------------
\* Properties of the other storage families (checked under Spec)
\* ------------------------------------------------------------------------
StubFamilies == {"Oss", "Azblob", "Gcs"}

StubRun ==
    /\ role = "Datanode" /\ cfg.storage # None
    /\ storage_type_of(cfg) \in StubFamilies

\* C19: for the families Oss, Azblob and Gcs the storage verifier returns
\* one Warning detail and attempts no access to a store or to the file
\* system; a run whose connectivity details are all Pass has success = true.
C19_StubFamilyWarning ==
    (StubRun /\ StorageReturned) =>
        /\ Len(second_result.details) = 1
        /\ second_result.details[1].status = Warning
        /\ \A i \in DOMAIN ops : ops[i].op \in {"parse", "connect"}
        /\ (pc = "done" /\ AllPass(conn_result.details)) => result.success

C19_Witness ==
    /\ StubRun /\ pc = "done" /\ storage_type_of(cfg) = "Oss"
    /\ Len(conn_result.details) = 2 /\ AllPass(conn_result.details)
    /\ second_result.details[1].status = Warning
    /\ result.success

FileRun ==
    /\ role = "Datanode" /\ cfg.storage # None
    /\ storage_type_of(cfg) = "File"

FsOps == SelectSeq(ops, LAMBDA o : o.op \in {"fs_metadata", "fs_write",
                                              "fs_remove_file"})

\* C20: the file verifier first asks for the metadata of the configured
\* directory. A missing directory gives one Fail whose message names the
\* directory, and success = false; a path that is no directory gives one
\* Fail with another message; neither writes a probe file. For a directory
\* a probe file named with a fresh uuid is written inside it: a write error
\* gives a Fail, a successful write gives a Pass and the probe file is
\* removed.
C20_FileStorage ==
    (FileRun /\ StorageReturned) =>
        LET d == second_result.details
            root == root_path_of(cfg)
            missing_message == check_file_storage(cfg, "missing").details[1].message
        IN  /\ FsOps # <<>>
            /\ FsOps[1].op = "fs_metadata" /\ FsOps[1].path = root
            /\ FsOps[1].answer = "Err" =>
                   /\ Len(FsOps) = 1
                   /\ Len(d) = 1 /\ d[1].status = Fail
                   /\ Contains(d[1].message, root)
                   /\ Contains(d[1].message, Lit("' does not exist or is not accessible: "))
                   /\ (pc = "done" => ~result.success)
            /\ FsOps[1].answer = "NotDir" =>
                   /\ Len(FsOps) = 1
                   /\ Len(d) = 1 /\ d[1].status = Fail
                   /\ d[1].message # missing_message
                   /\ Contains(d[1].message, Lit("' exists but is not a directory"))
            /\ FsOps[1].answer = "Dir" =>
                   /\ Len(FsOps) >= 2 /\ Len(d) = 2
                   /\ d[1].status = Pass
                   /\ FsOps[2].op = "fs_write"
                   /\ Contains(FsOps[2].path, root \o Lit("/stepstone_test_"))
                   /\ Contains(FsOps[2].path, Lit("{uuid}"))
                   /\ FsOps[2].outcome = "Err" =>
                          /\ Len(FsOps) = 2 /\ d[2].status = Fail
                   /\ FsOps[2].outcome = "Ok" =>
                          /\ d[2].status = Pass
                          /\ Len(FsOps) = 3
                          /\ FsOps[3].op = "fs_remove_file"
                          /\ FsOps[3].path = FsOps[2].path

C20_Witness ==
    /\ FileRun /\ pc = "done"
    /\ cfg.storage[1].data_home # None
    /\ Len(FsOps) = 1 /\ FsOps[1].answer = "Err"
    /\ second_result.details[1].status = Fail
    /\ Contains(second_result.details[1].message, cfg.storage[1].data_home[1])
    /\ ~result.success

\* ------------------------------------------------------------------------
\* Properties of the metadata-store verifiers (checked under Spec)
\* ------------------------------------------------------------------------
MetaRun(backend) == role = "Metasrv" /\ cfg.backend = backend

\* C21: with the in-memory backend check() attempts no operation on any
\* store, whatever store_addrs holds, and returns success with exactly one
\* detail, which is a Pass.
C21_MemoryStore ==
    MetaRun("memory_store") =>
        /\ ops = <<>>
        /\ pc = "done" =>
              /\ result.success
              /\ Len(result.details) = 1
              /\ result.details[1].status = Pass

C21_Witness ==
    /\ MetaRun("memory_store") /\ pc = "done"
    /\ cfg.store_addrs = <<StoreAddr>>
    /\ ops = <<>>
    /\ result.details[1].item = Lit("Memory Store")

\* the family names the two dispatchers recognize
KnownBackends == {"etcd_store", "postgres_store", "mysql_store", "memory_store"}
KnownStorageTypes == {"S3", "Oss", "Azblob", "Gcs", "File"}

UnknownBackendRun == role = "Metasrv" /\ cfg.backend \notin KnownBackends
UnknownStorageRun ==
    /\ role = "Datanode" /\ cfg.storage # None
    /\ storage_type_of(cfg) \notin KnownStorageTypes

\* one Fail detail whose message holds the rejected value
OneFailNaming(details, value) ==
    /\ Len(details) = 1
    /\ details[1].status = Fail
    /\ Contains(details[1].message, Lit(value))

\* C22: a backend name of the metadata store, or a storage type of the
\* datanode, that the dispatcher does not recognize makes the verifier return
\* one Fail detail whose message holds the rejected value, without any
\* operation on a store or on the file system, and check() returns
\* success = false.
C22_UnknownFamily ==
    /\ UnknownBackendRun =>
          /\ ops = <<>>
          /\ pc # "done" => pc = "check"
          /\ pc = "done" =>
                /\ OneFailNaming(result.details, cfg.backend)
                /\ ~result.success
    /\ UnknownStorageRun =>
          /\ \A i \in DOMAIN ops : ops[i].op \in {"parse", "connect"}
          /\ StorageReturned =>
                OneFailNaming(second_result.details, storage_type_of(cfg))
          /\ pc = "done" => ~result.success

C22_Witness ==
    /\ UnknownBackendRun /\ pc = "done"
    /\ cfg.backend = "raft_store" /\ cfg.store_addrs = <<StoreAddr>>
    /\ Contains(result.details[1].message, Lit("raft_store"))
    /\ ~result.success

\* the read-backs of the probe key sent so far, and the detail about them
GetOps == SelectSeq(ops, LAMBDA o : o.op = "kv_get")
EtcdGetDetails == SelectSeq(cur, LAMBDA d : d.item = Lit("Etcd GET Operation"))

\* C23 as stated: after a successful probe write the read-back is attempted
\* up to 3 times; the read detail is a Pass exactly when the last attempt
\* made returned the written bytes, and a Fail only after 3 attempts, with a
\* message that holds the attempt count 3.
C23_Original ==
    (MetaRun("etcd_store") /\ pc = "done" /\ GetOps # <<>>) =>
        /\ Len(GetOps) <= 3
        /\ Len(EtcdGetDetails) = 1
        /\ \A k \in 1..(Len(GetOps) - 1) : GetOps[k].outcome # "Match"
        /\ EtcdGetDetails[1].status = Pass <=> GetOps[Len(GetOps)].outcome = "Match"
        /\ EtcdGetDetails[1].status = Fail =>
              /\ Len(GetOps) = 3
              /\ Contains(EtcdGetDetails[1].message, ToDec(3))

SqlRun == role = "Metasrv" /\ cfg.backend \in {"postgres_store", "mysql_store"}

\* the answers to the catalog query, and the operations sent after it
ExistsOps == SelectSeq(ops, LAMBDA o : o.op = "sql_query_exists")
AfterExistsOps ==
    SelectSeq(ops, LAMBDA o : o.op \notin {"sql_connect", "sql_query_exists"})

\* C24: after a successful connect of either SQL family the catalog query
\* decides the second detail: an error of the query gives a Fail, a missing
\* table a Warning, an existing table a Pass; and a run against a database
\* without the table whose later operations all succeed returns
\* success = true.
C24_TableExistence ==
    (SqlRun /\ ExistsOps # <<>>) =>
        /\ ops[1] = MetaOp("sql_connect", "Ok")
        /\ ExistsOps[1].outcome = "Err" => cur[2].status = Fail
        /\ ExistsOps[1].outcome = "Absent" => cur[2].status = Warning
        /\ ExistsOps[1].outcome = "Exists" =>
              /\ cur[2].status = Pass
              /\ cur[2].item = Lit("Metadata Table Existence")
        /\ ( /\ pc = "done"
             /\ ExistsOps[1].outcome = "Absent"
             /\ \A i \in DOMAIN AfterExistsOps : AfterExistsOps[i].outcome = "Ok" )
              => result.success

C24_Witness ==
    /\ MetaRun("postgres_store") /\ pc = "done"
    /\ ExistsOps = <<MetaOp("sql_query_exists", "Absent")>>
    /\ OpNames(AfterExistsOps)
         = <<"sql_create_table", "sql_select_count", "sql_upsert", "sql_delete_row">>
    /\ cur[2].status = Warning
    /\ result.success

ReadPermissionItem == Lit("PostgreSQL Read Permission")
WritePermissionItem == Lit("PostgreSQL Write Permission")
DetailsOf(item) == SelectSeq(cur, LAMBDA d : d.item = item)

\* the probes of a run whose catalog query answered that the table exists:
\* the first operation after the catalog query is the count query and it
\* has one read detail. When it fails, the read detail is a Fail, nothing
\* else is sent and no write detail is emitted. When it succeeds, the next
\* operation is the upsert of the probe row, and a successful upsert is
\* followed by the deletion of that row.
ReadThenWriteProbes ==
    /\ pc = "done" => AfterExistsOps # <<>>
    /\ AfterExistsOps # <<>> =>
        /\ AfterExistsOps[1].op = "sql_select_count"
        /\ Len(DetailsOf(ReadPermissionItem)) = 1
        /\ AfterExistsOps[1].outcome = "Err" =>
              /\ DetailsOf(ReadPermissionItem)[1].status = Fail
              /\ Len(AfterExistsOps) = 1
              /\ DetailsOf(WritePermissionItem) = <<>>
        /\ AfterExistsOps[1].outcome = "Ok" =>
              /\ DetailsOf(ReadPermissionItem)[1].status = Pass
              /\ pc = "done" =>
                    /\ Len(AfterExistsOps) >= 2
                    /\ AfterExistsOps[2].op = "sql_upsert"
                    /\ Len(DetailsOf(WritePermissionItem)) = 1
                    /\ IF AfterExistsOps[2].outcome = "Ok"
                       THEN /\ Len(AfterExistsOps) = 3
                            /\ AfterExistsOps[3].op = "sql_delete_row"
                            /\ DetailsOf(WritePermissionItem)[1].status = Pass
                       ELSE /\ Len(AfterExistsOps) = 2
                            /\ DetailsOf(WritePermissionItem)[1].status = Fail

\* the same for the runs of the PostgreSQL verifier alone
PostgresReadThenWrite ==
    ( /\ MetaRun("postgres_store") /\ ExistsOps # <<>>
      /\ ExistsOps[1].outcome = "Exists" ) => ReadThenWriteProbes

\* C25 as stated: in a run of either SQL family whose catalog query answered
\* that the metadata table exists, the read probe (the count query) is sent
\* first; a failed read probe gives a Fail and no write probe; a successful
\* one is followed by the upsert of a probe row and the deletion of that row.
C25_Original ==
    ( /\ SqlRun /\ ExistsOps # <<>>
      /\ ExistsOps[1].outcome = "Exists" ) => ReadThenWriteProbes

\* C26 as stated: the MySQL verifier follows the protocol of the PostgreSQL
\* verifier. After the catalog query answered that the table exists it sends
\* the count query and emits a read detail, and after the answer that the
\* table is missing it sends the table creation, so that its details are as
\* many as those of the PostgreSQL verifier for the same answers.
C26_Original ==
    ( /\ MetaRun("mysql_store") /\ pc = "done" /\ ExistsOps # <<>>
      /\ ExistsOps[1].outcome # "Err" ) =>
        /\ AfterExistsOps # <<>>
        /\ ExistsOps[1].outcome = "Exists" =>
              AfterExistsOps[1].op = "sql_select_count"
        /\ ExistsOps[1].outcome = "Absent" =>
              AfterExistsOps[1].op = "sql_create_table"
        /\ Len(cur) >= 3

\* the operations that remove a probe key or a probe row, and the others
CleanupOpNames == {"kv_delete", "sql_delete_row"}
CleanupOps == SelectSeq(ops, LAMBDA o : o.op \in CleanupOpNames)
ProbeStepOps == SelectSeq(ops, LAMBDA o : o.op \notin CleanupOpNames)
GoodAnswers == {"Ok", "Match", "Exists", "Absent"}

\* C28 as stated: a run of a metadata-store verifier in which every
\* operation but the cleanup succeeded and the cleanup failed has no Fail
\* detail and returns success = true.
C28_Original ==
    ( /\ role = "Metasrv" /\ pc = "done"
      /\ \A i \in DOMAIN ProbeStepOps : ProbeStepOps[i].outcome \in GoodAnswers
      /\ \E i \in DOMAIN CleanupOps : CleanupOps[i].outcome = "Err" ) =>
        /\ NoFail(result.details)
        /\ result.success

\* ------------------------------------------------------------------------
\* Termination of a check run (checked under Spec)
\* ------------------------------------------------------------------------
\* C27 as stated: every request of a run is bounded by a timeout, so a run
\* that has not returned its CheckResult can always take a step, whatever
\* the backend does, also when it accepts a request and never answers.
C27_Original == pc = "done" \/ ENABLED Next

\* ------------------------------------------------------------------------
\* Properties of runs against one store (checked under SpecStore)
\* ------------------------------------------------------------------------
Started(r) == st_pc[r] # "check"
Returned(r) == st_pc[r] = "done"

\* what the run returned reports success: a CheckResult with success =
\* true, or Ok(()) of check_put_get
Succeeded(r) ==
    IF "ok" \in DOMAIN st_result[r] THEN st_result[r].ok
    ELSE st_result[r].success

\* C29 as stated: when every run that was started has returned, the store
\* holds what it held before the first run: the same tables and the same
\* entries.
C29_Original ==
    ( /\ \E r \in Runs : Returned(r)
      /\ \A r \in Runs : Started(r) => Returned(r) ) =>
        st_data = st_before

\* C30 as stated: runs interleaved in any order against the same healthy
\* store do not disturb one another; each of them returns success = true.
C30_Original ==
    \A r \in Runs : Returned(r) => Succeeded(r)

\* ------------------------------------------------------------------------
\* Properties of the verifiers' first steps and probes (checked under Spec)
\* ------------------------------------------------------------------------
ClientOps == SelectSeq(ops, LAMBDA o : o.op = "s3_client")

\* exactly one detail, a Fail
OneFail(details) == Len(details) = 1 /\ details[1].status = Fail

\* C31: when the first, blocking step of a verifier fails (the construction
\* of the object-store client, the connect to the coordination store, the
\* connect to the database) the verifier emits one Fail detail and sends no
\* request afterwards.
C31_BlockingStepStops ==
    /\ (S3Run /\ ClientOps # <<>> /\ ClientOps[1].outcome = "Err") =>
          /\ OneFail(StorageEmitted)
          /\ StoreOps = <<>>
          /\ ops[Len(ops)].op = "s3_client"
    /\ (role = "Metasrv" /\ ops # <<>> /\ ops[1].outcome = "Err") =>
          /\ ops[1].op \in {"kv_connect", "sql_connect"}
          /\ Len(ops) = 1
          /\ OneFail(cur)

C31_Witness ==
    /\ MetaRun("etcd_store") /\ pc = "done"
    /\ ops = <<MetaOp("kv_connect", "Err")>>
    /\ OneFail(result.details)
    /\ ~result.success

\* the listing and the read of the fresh key, with what the store answered
ListOps == SelectSeq(ops, LAMBDA o : o.op = "s3_list")
NegReadOps == SelectSeq(ops, LAMBDA o : o.op = "s3_read" /\ o.key = NonExistentKey)

\* the word of an error answer that names its category
ErrorWord(outcome) == outcome.e[Len(outcome.e)]

\* the detail the listing pushed: the one after the client detail
ListDetail == StorageEmitted[2]
NegReadDetail == StorageEmitted[3]

\* C32: the listing probe pushes one detail. A listing that succeeds gives a
\* Pass; an access-denied error a Fail about the list permission; a missing
\* bucket a Fail about the bucket's existence; an invalid access key id a
\* Fail about the access key; a signature mismatch a Fail about the secret
\* key; any other error and the expiry of the 30 s wait give a Warning.
C32_ListClassification ==
    (S3Run /\ ListOps # <<>>) =>
        LET o == ListOps[1].outcome
            d == ListDetail
        IN  /\ pc = "s3_negread" => Len(cur) = 2
            /\ o.kind = "Ok" => d.status = Pass
            /\ o.kind = "Elapsed" => d.status = Warning
            /\ o.kind = "Err" =>
                 CASE ErrorWord(o) \in {"AccessDenied", "Forbidden"} ->
                        /\ d.status = Fail
                        /\ d.item = Lit("S3 Bucket List Permission")
                        /\ Contains(d.suggestion[1], Lit("Check if the AKSK has ListBucket permission for this bucket"))
                   [] ErrorWord(o) = "NoSuchBucket" ->
                        d.status = Fail /\ d.item = Lit("S3 Bucket Existence")
                   [] ErrorWord(o) = "InvalidAccessKeyId" ->
                        d.status = Fail /\ d.item = Lit("S3 Access Key Validation")
                   [] ErrorWord(o) = "SignatureDoesNotMatch" ->
                        d.status = Fail /\ d.item = Lit("S3 Secret Key Validation")
                   [] OTHER -> d.status = Warning

C32_Witness ==
    /\ S3Run /\ pc = "done"
    /\ ListOps # <<>> /\ ListOps[1].outcome.kind = "Err"
    /\ ErrorWord(ListOps[1].outcome) = "NoSuchBucket"
    /\ second_result.details[2].item = Lit("S3 Bucket Existence")
    /\ second_result.details[2].status = Fail

\* C33: the read of a key that cannot exist pushes one detail. A not-found
\* error gives a Pass, an access-denied error a Fail, returned data a
\* Warning, any other error and the expiry of the 10 s wait a Warning.
C33_NegativeRead ==
    (S3Run /\ NegReadOps # <<>>) =>
        LET o == NegReadOps[1].outcome
            d == NegReadDetail
        IN  /\ pc = "s3_put" => Len(cur) = 3
            /\ o.kind = "Data" => d.status = Warning
            /\ o.kind = "Elapsed" => d.status = Warning
            /\ o.kind = "Err" =>
                 CASE ErrorWord(o) \in {"NoSuchKey", "NotFound"} -> d.status = Pass
                   [] ErrorWord(o) \in {"AccessDenied", "Forbidden"} -> d.status = Fail
                   [] OTHER -> d.status = Warning

C33_Witness ==
    /\ S3Run /\ pc = "done"
    /\ NegReadOps # <<>> /\ NegReadOps[1].outcome.kind = "Data"
    /\ second_result.details[3].status = Warning
    /\ second_result.details[3].item = Lit("S3 Read Permission (Error Handling)")

\* C34: whatever the listing and the read of the fresh key report, the
\* verifier goes on to the round trip: once it has returned, the write of
\* the probe object was sent, and its result holds the two probe details,
\* unchanged, after the client detail and before the first round-trip detail.
C34_ProbesDoNotStopRoundTrip ==
    (S3Run /\ ListOps # <<>> /\ StorageReturned) =>
        /\ NegReadOps # <<>>
        /\ ProbeOps # <<>> /\ ProbeOps[1].op = "s3_write"
        /\ Len(second_result.details) >= 4
        /\ second_result.details[2] = list_detail(ListOps[1].outcome, lat)
        /\ second_result.details[3] = negread_detail(NegReadOps[1].outcome)
        /\ second_result.details[4].item = PutItem

C34_Witness ==
    /\ S3Run /\ pc = "done"
    /\ Len(second_result.details) >= 6
    /\ second_result.details[2].status = Fail
    /\ second_result.details[3].status = Fail
    /\ ItemsOf(SubSeq(second_result.details, 4, 6)) = <<PutItem, GetItem, DeleteItem>>
    /\ second_result.details[6].status = Pass

CreatePermissionItem == Lit("PostgreSQL Create Permission")

\* the probes of a run whose catalog query answered that the table is
\* missing: the next request is the table creation. When it fails, its
\* detail is a Fail and neither a read nor a write probe is sent. When it
\* succeeds, its detail is a Pass and the count query follows at once; a
\* failed count query ends the probes, a successful one is followed by the
\* upsert.
CreateThenProbes ==
    /\ pc = "done" => AfterExistsOps # <<>>
    /\ AfterExistsOps # <<>> =>
        /\ AfterExistsOps[1].op = "sql_create_table"
        /\ Len(DetailsOf(CreatePermissionItem)) = 1
        /\ AfterExistsOps[1].outcome = "Err" =>
              /\ DetailsOf(CreatePermissionItem)[1].status = Fail
              /\ Len(AfterExistsOps) = 1
              /\ DetailsOf(ReadPermissionItem) = <<>>
              /\ DetailsOf(WritePermissionItem) = <<>>
        /\ AfterExistsOps[1].outcome = "Ok" =>
              /\ DetailsOf(CreatePermissionItem)[1].status = Pass
              /\ pc = "done" =>
                    /\ Len(AfterExistsOps) >= 2
                    /\ AfterExistsOps[2].op = "sql_select_count"
                    /\ Len(DetailsOf(ReadPermissionItem)) = 1
                    /\ IF AfterExistsOps[2].outcome = "Err"
                       THEN /\ Len(AfterExistsOps) = 2
                            /\ DetailsOf(ReadPermissionItem)[1].status = Fail
                            /\ DetailsOf(WritePermissionItem) = <<>>
                       ELSE /\ Len(AfterExistsOps) >= 3
                            /\ AfterExistsOps[3].op = "sql_upsert"
                            /\ Len(DetailsOf(WritePermissionItem)) = 1

\* C35 as stated: in a run of either SQL family whose catalog query answered
\* that the metadata table is missing, the create-table probe is executed; a
\* failed creation gives a Fail and no read or write probe, a successful one
\* a Pass and the read and write probes with the read-failure rule.
C35_Original ==
    ( /\ SqlRun /\ ExistsOps # <<>>
      /\ ExistsOps[1].outcome = "Absent" ) => CreateThenProbes

\* C35: when the catalog query of the PostgreSQL verifier answers that the
\* table is missing, the create-table probe is executed as the claim states.
\* When the catalog query of the MySQL verifier answers that the table is
\* missing, nothing is sent after it: the Warning of the existence item is
\* the last detail and no create, read or write detail is emitted.
C35_CreateThenProbe ==
    /\ ( /\ MetaRun("postgres_store") /\ ExistsOps # <<>>
         /\ ExistsOps[1].outcome = "Absent" ) => CreateThenProbes
    /\ ( /\ MetaRun("mysql_store") /\ ExistsOps # <<>>
         /\ ExistsOps[1].outcome = "Absent" ) =>
            /\ AfterExistsOps = <<>>
            /\ Len(cur) = 2
            /\ cur[2].status = Warning
            /\ pc = "done" => result.success

C35_Witness ==
    /\ MetaRun("postgres_store") /\ pc = "done"
    /\ ExistsOps = <<MetaOp("sql_query_exists", "Absent")>>
    /\ AfterExistsOps = <<MetaOp("sql_create_table", "Err")>>
    /\ DetailsOf(CreatePermissionItem)[1].status = Fail
    /\ DetailsOf(ReadPermissionItem) = <<>>
    /\ ~result.success

\* ------------------------------------------------------------------------
\* Properties of every returned result (checked under Spec)
\* ------------------------------------------------------------------------
StatusesOf(details) == {details[i].status : i \in DOMAIN details}

\* C36: in the result check() returns, for every role, a Pass detail has no
\* suggestion and a Fail or Warning detail has one.
C36_SuggestionConvention ==
    pc = "done" =>
        \A i \in DOMAIN result.details :
            (result.details[i].status = Pass) <=> (result.details[i].suggestion = None)

C36_Witness ==
    /\ pc = "done"
    /\ StatusesOf(result.details) = {Pass, Fail, Warning}
    /\ \E i \in DOMAIN result.details :
          /\ result.details[i].status = Warning
          /\ result.details[i].suggestion # None

\* C37: the result check() returns holds at least one detail, for every
\* role, configuration and behaviour of the backends; a successful result
\* is never one over an empty list.
C37_AtLeastOneDetail ==
    pc = "done" => Len(result.details) >= 1

C37_Witness ==
    /\ pc = "done" /\ MetaRun("mysql_store")
    /\ cfg.store_addrs = <<>> /\ ops = <<>>
    /\ Len(result.details) = 1

\* C38: a datanode check whose storage is of the File type returns no
\* Warning detail, whatever the endpoints and the file system answer; in
\* its JSON report total_checks = passed_checks + failed_checks, the
\* number of details.
FileStorageRun ==
    /\ role = "Datanode"
    /\ cfg.storage # None /\ storage_type_of(cfg) = "File"

C38_FileRunHasNoWarning ==
    (pc = "done" /\ FileStorageRun) =>
        LET report == to_json(result)
        IN  /\ \A i \in DOMAIN result.details : result.details[i].status # Warning
            /\ \A i \in DOMAIN report.details : report.details[i].status # "WARNING"
            /\ report.warning_checks = 0
            /\ report.total_checks = report.passed_checks + report.failed_checks
            /\ report.total_checks = Len(result.details)

C38_Witness ==
    /\ pc = "done" /\ FileStorageRun
    /\ to_json(result).passed_checks >= 2
    /\ to_json(result).failed_checks >= 1
    /\ \E i \in DOMAIN ops : ops[i].op = "connect" /\ ops[i].outcome.kind = "Elapsed"
    /\ \E i \in DOMAIN ops : ops[i].op = "fs_write"

\* C39: the message of from_details is the all-pass text exactly when the
\* list has no Fail and no Warning, the pass-with-warnings text exactly when
\* it has no Fail and at least one Warning, and the has-failures text exactly
\* when it has a Fail; the counts it names are the numbers of Pass, Warning
\* and Fail details, which add up to the length of the list.
AllPassForm(p) ==
    <<"All checks passed (">> \o ToDec(p) \o <<" passed)">>

WithWarningsForm(p, w) ==
    <<"Checks completed with warnings (">> \o ToDec(p) \o <<" passed, ">>
      \o ToDec(w) \o <<" warnings)">>

HasFailuresForm(p, w, f) ==
    <<"Some checks failed (">> \o ToDec(p) \o <<" passed, ">> \o ToDec(w)
      \o <<" warnings, ">> \o ToDec(f) \o <<" failed)">>

NumberWith(st) == Cardinality({i \in DOMAIN rm_in : rm_in[i].status = st})

C39_MessageForms ==
    (rm_out # NoResult /\ rm_out.ctor = "from_details") =>
        LET p == NumberWith(Pass)
            w == NumberWith(Warning)
            f == NumberWith(Fail)
            message == rm_out.res.message
        IN  /\ (message = AllPassForm(p)) <=> (f = 0 /\ w = 0)
            /\ (message = WithWarningsForm(p, w)) <=> (f = 0 /\ w >= 1)
            /\ (message = HasFailuresForm(p, w, f)) <=> (f >= 1)
            /\ message[1] = "All checks passed (" => (f = 0 /\ w = 0)
            /\ message[1] = "Checks completed with warnings (" => (f = 0 /\ w >= 1)
            /\ message[1] = "Some checks failed (" => f >= 1
            /\ p + w + f = Len(rm_in)

C39_Witness ==
    /\ rm_out # NoResult /\ rm_out.ctor = "from_details"
    /\ NumberWith(Pass) = 1 /\ NumberWith(Warning) = 1 /\ NumberWith(Fail) = 1
    /\ rm_out.res.message = HasFailuresForm(1, 1, 1)

\* C40: from_details is compositional over concatenation. For every way of
\* cutting the list into a front part a and a back part b, the success of
\* from_details(a ++ b) is the conjunction of the successes of
\* from_details(a) and from_details(b); the success is the same for every
\* order of the details; the total_duration of the whole is the sum of the
\* total_durations of the parts that are present, None only when both are.
OptionSum(x, y) ==
    CASE x = None /\ y = None -> None
      [] x = None /\ y # None -> y
      [] x # None /\ y = None -> x
      [] OTHER -> Some(x[1] + y[1])

Reordered(details, perm) == [i \in DOMAIN details |-> details[perm[i]]]

C40_Compositional ==
    (rm_out # NoResult /\ rm_out.ctor = "from_details") =>
        LET whole == rm_out.res
        IN  /\ \A k \in 0..Len(rm_in) :
                 LET a == from_details(SubSeq(rm_in, 1, k))
                     b == from_details(SubSeq(rm_in, k + 1, Len(rm_in)))
                 IN  /\ whole.success = (a.success /\ b.success)
                     /\ whole.total_duration
                          = OptionSum(a.total_duration, b.total_duration)
            /\ \A perm \in Permutations(DOMAIN rm_in) :
                 from_details(Reordered(rm_in, perm)).success = whole.success

C40_Witness ==
    /\ rm_out # NoResult /\ rm_out.ctor = "from_details"
    /\ Len(rm_in) = 3
    /\ rm_in[1].status = Pass /\ rm_in[1].duration = None
    /\ rm_in[2].status = Fail /\ rm_in[2].duration # None
    /\ rm_in[3].status = Warning /\ rm_in[3].duration # None
    /\ ~rm_out.res.success
    /\ from_details(SubSeq(rm_in, 1, 1)).success
    /\ from_details(SubSeq(rm_in, 1, 1)).total_duration = None
    /\ rm_out.res.total_duration
         = Some(rm_in[2].duration[1] + rm_in[3].duration[1])
====
